---------------------------- MODULE Spec2Model ----------------------------
(***************************************************************************)
(* Model of the KSeF proxy backend: the in-memory mock KSeF simulator      *)
(* (src/src/mock/ksef-mock-server.ts), the mode switch                     *)
(* (src/src/config/ksef-config.ts, src/src/server.ts) and the real gateway *)
(* routes (src/src/routes/ksef.ts).                                        *)
(*                                                                         *)
(* Two specifications share the module:                                    *)
(*   Spec         the mock simulator: its two maps, the wall clock, the    *)
(*                pending InitSigned timers and the last response;         *)
(*   SpecGateway  process.env, the start-up route mounting, the requests   *)
(*                that read the mode, and one real-gateway request at a    *)
(*                time with its outbound calls and the upstream's answers. *)
(* Each specification holds the other part's variables at their initial    *)
(* values.                                                                 *)
(***************************************************************************)
EXTENDS Integers, Sequences, FiniteSets, TLC

VARIABLES
    \* ---- mock simulator (ksef-mock-server.ts) ----
    mockSessions,   \* Map token -> session record            (line 7)
    mockInvoices,   \* Map elementReferenceNumber -> invoice  (line 8)
    now,            \* the wall clock read by new Date() / Date.now(), in ms
    rng,            \* number of values crypto.randomBytes has produced so far
    timers,         \* due times of the pending InitSigned setTimeout callbacks
    resp,           \* the last response the mock sent, with the request it answers
    \* ---- history of the mock (not program state) ----
    issued,         \* <<token, referenceNumber>> of every session-init answered
    terminated,     \* tokens whose session a Terminate removed
    acceptedRead,   \* references for which a status read has reported accepted
    readAgain,      \* references read again after a read that reported accepted
    sent,           \* how many SendInvoice requests were answered 202
    \* ---- mode switch and real gateway (ksef-config.ts, server.ts, ksef.ts) ----
    env,            \* process.env: each variable unset (<<>>) or set (<<value>>)
    mockMounted,    \* whether server.ts mounted the mock router when it loaded
    pc,             \* where the gateway request in progress is waiting
    req,            \* the gateway request in progress (route and body)
    calls,          \* the outbound HTTP calls made for that request, in order
    gwResp,         \* the last response sent outside the mock router
    \* ---- history of the gateway (not program state) ----
    steps,          \* the steps the request in progress has run, with outcome
    \* ---- GUS REGON client (GUSRegonService, the second part of ksef-config.ts) ----
    gusRegonService,  \* the shared instance: its fields config and sessionId
    gusReq,           \* per caller, the call in progress and where it waits
    gusLogins,        \* how many logins have been sent so far
    \* ---- keep-alive service (KeepAliveService of server.ts) ----
    keepAliveService, \* the instance: config.enabled, intervalId and counters
    initialPing,      \* whether the setTimeout of start() is pending
    \* ---- history of the keep-alive service (not program state) ----
    pings             \* how many pings were started and how many have ended

mockVars == <<mockSessions, mockInvoices, now, rng, timers, resp,
              issued, terminated, acceptedRead, readAgain, sent>>

gwVars == <<env, mockMounted, pc, req, calls, gwResp, steps>>

gusVars == <<gusRegonService, gusReq, gusLogins>>

keepAliveVars == <<keepAliveService, initialPing, pings>>

vars == <<mockVars, gwVars, gusVars, keepAliveVars>>

-----------------------------------------------------------------------------
(* Bounds of the model *)

\* the clock runs over MaxMinutes minutes
MaxMinutes == 3
\* crypto.randomBytes is drawn at most MaxDraws times (two draws per session
\* or invoice created)
MaxDraws == 6

-----------------------------------------------------------------------------
(* Time *)

\* ksef-mock-server.ts:214  (1000 * 60)
MsPerMinute == 1000 * 60

MsPerDay == 24 * 60 * MsPerMinute

\* ksef-mock-server.ts:220  if (ageMinutes > 2)
AcceptAfterMinutes == 2

\* ksef-mock-server.ts:106  setTimeout(..., 500)
InitSignedDelay == 500

\* The instants the clock takes: the start, the instant the first InitSigned
\* timer is due, one millisecond after the threshold, and from the threshold
\* on every whole minute, so that ages below two minutes, of exactly two
\* minutes, of one millisecond more and of whole minutes beyond all occur.
TimePoints ==
    {0, InitSignedDelay, AcceptAfterMinutes * MsPerMinute + 1}
        \cup {m * MsPerMinute : m \in AcceptAfterMinutes..MaxMinutes}

\* toISOString().slice(0, 10).replace(/-/g, '') : the UTC day as YYYYMMDD
\* (days of January 1970, where the model's clock lives)
DateStr(t) == ToString(19700101 + (t \div MsPerDay))

-----------------------------------------------------------------------------
(* Generators.  crypto.randomBytes is a cryptographic generator: the model *)
(* takes its successive outputs to be pairwise different and writes the    *)
(* k-th next output as the number rng + k.  The mock never compares a      *)
(* generated value with the store before using it.                         *)

randomBytes(k) == rng + k

\* hex / base64 rendering of random bytes: an injective string
Hex(r) == ToString(r)

generateSessionTokenConst(r) == "b64:" \o Hex(0)

generateSessionToken(r) == "b64:" \o Hex(r)

\* generateReferenceNumber (a variant without the random part comes first)
generateReferenceNumberConst(t, r) == DateStr(t) \o "-SE-"

generateReferenceNumber(t, r) == DateStr(t) \o "-SE-" \o Hex(r)

generateKSeFNumber(nip, t, r) == nip \o "-" \o DateStr(t) \o "-" \o Hex(r)

\* '1111111111', the fixed placeholder subject of every mock session
MockNip == "1111111111"

-----------------------------------------------------------------------------
(* Requests.  A header is absent (<<>>) or present with a string value     *)
(* (<<v>>).                                                                *)

NoHeader == <<>>

\* the sessiontoken headers tried: absent, a token no init ever issued, and
\* every token issued so far (live or terminated)
Headers ==
    {NoHeader, <<generateSessionToken(0)>>}
        \cup {<<t>> : t \in DOMAIN mockSessions \cup terminated}

\* the :referenceNumber parameters tried: the key of every stored invoice
\* and a reference number never generated
RefParams ==
    DOMAIN mockInvoices \cup {generateReferenceNumber(0, 0)}

\* the :ksefReferenceNumber parameters tried: the KSeF number of every stored
\* invoice and one never generated
KsefParams ==
    {mockInvoices[r].ksefReferenceNumber : r \in DOMAIN mockInvoices}
        \cup {generateKSeFNumber(MockNip, 0, 0)}

\* !sessionToken
Falsy(h) == h = NoHeader \/ h[1] = ""

\* !sessionToken || !mockSessions.has(sessionToken) (a variant that also
\* turns away a token that sent none of the stored invoices comes first)
NotAuthorisedUnlessOwner(h) ==
    \/ Falsy(h)
    \/ h[1] \notin DOMAIN mockSessions
    \/ /\ DOMAIN mockInvoices # {}
       /\ \A r \in DOMAIN mockInvoices : mockInvoices[r].sessionToken # h[1]

NotAuthorised(h) == Falsy(h) \/ h[1] \notin DOMAIN mockSessions

-----------------------------------------------------------------------------
(* Responses *)

NoBody == [none |-> TRUE]

\* the maps are empty when the module is loaded
EmptyMap == [k \in {} |-> NoBody]

\* res.status(status).json(body), with the request it answers: the route
\* and the sessiontoken header
Reply(op, h, status, body) ==
    [op |-> op, hdr |-> h, status |-> status, body |-> body]

\* createSuccessResponse(data): the data under a generated timestamp and
\* referenceNumber; the two generated fields are never stored or compared
\* and are left out
createSuccessResponse(data) == data

\* createErrorResponse(code, description)
createErrorResponse(code, description) ==
    [exception |->
        [serviceCtx |-> "srvMOCK",
         serviceName |-> "mock.service",
         exceptionDetailList |->
            <<[exceptionCode |-> code, exceptionDescription |-> description]>>]]

UnauthorisedAs404(op, h) ==
    Reply(op, h, 404, createErrorResponse(21002, "Nie znaleziono faktury"))

\* res.status(401).json(createErrorResponse(21003, 'Nieautoryzowany dostep'))
Unauthorised(op, h) ==
    Reply(op, h, 401, createErrorResponse(21003, "Nieautoryzowany dostep"))

\* res.status(404).json(createErrorResponse(21002, 'Nie znaleziono faktury'))
NotFoundAsUnauthorised(op, h) ==
    Reply(op, h, 401, createErrorResponse(21003, "Nieautoryzowany dostep"))

NotFound(op, h) ==
    Reply(op, h, 404, createErrorResponse(21002, "Nie znaleziono faktury"))

-----------------------------------------------------------------------------
(* The lazy status transition of GET /online/Invoice/Status *)

\* ageMinutes = (now - createdAt) / (1000 * 60);  ageMinutes > 2.
\* The division is exact at the threshold, so the comparison is the same as
\* comparing the milliseconds with 2 * (1000 * 60).
AgeOverThresholdInclusive(t, createdAt) ==
    (t - createdAt) >= AcceptAfterMinutes * MsPerMinute

AgeOverThresholdFloorEq(t, createdAt) ==
    ((t - createdAt) \div MsPerMinute) = AcceptAfterMinutes

AgeOverThreshold(t, createdAt) ==
    (t - createdAt) > AcceptAfterMinutes * MsPerMinute

-----------------------------------------------------------------------------
(* Handlers of the mock router.  Each is one synchronous callback: it runs *)
(* to completion at the instant `now`.                                     *)

\* the session record both inits store
NewSessionPending(referenceNumber) ==
    [createdAt |-> now, referenceNumber |-> referenceNumber,
     contextNip |-> MockNip, status |-> "pending"]

NewSession(referenceNumber) ==
    [createdAt |-> now, referenceNumber |-> referenceNumber,
     contextNip |-> MockNip, status |-> "active"]

\* mockSessions.set(sessionToken, {...}) : adds the key or overwrites it
SessionsSet(token, session) ==
    [t \in DOMAIN mockSessions \cup {token} |->
        IF t = token THEN session ELSE mockSessions[t]]

\* what both inits do once they run: generate, store, answer 201
CreateSession(op) ==
    LET sessionToken == generateSessionToken(randomBytes(1))
        referenceNumber == generateReferenceNumber(now, randomBytes(2))
    IN  /\ rng + 2 <= MaxDraws
        /\ rng' = rng + 2
        /\ mockSessions' = SessionsSet(sessionToken, NewSession(referenceNumber))
        /\ issued' = Append(issued, <<sessionToken, referenceNumber>>)
        /\ resp' = Reply(op, NoHeader, 201,
                     createSuccessResponse(
                        [sessionToken |->
                            [token |-> sessionToken,
                             elementReferenceNumber |-> referenceNumber]]))

\* POST /online/Session/AuthorisationChallenge
\* ctx is the body's contextIdentifier: absent (<<>>) or <<[type, identifier]>>
\* with "" for an absent or empty field
ContextIdentifiers ==
    {<<>>} \cup {<<[type |-> t, identifier |-> i]>> :
                    t \in {"", "onip"}, i \in {"", MockNip}}

\* !contextIdentifier || !contextIdentifier.type || !contextIdentifier.identifier
\* (a variant that forgets the identifier comes first)
MissingContextTypeOnly(ctx) ==
    ctx = <<>> \/ ctx[1].type = ""

MissingContext(ctx) ==
    ctx = <<>> \/ ctx[1].type = "" \/ ctx[1].identifier = ""

AuthorisationChallenge(ctx) ==
    /\ resp' =
         IF MissingContext(ctx)
         THEN Reply("AuthorisationChallenge", NoHeader, 400,
                 createErrorResponse(21001, "Brak wymaganych danych kontekstowych"))
         ELSE Reply("AuthorisationChallenge", NoHeader, 201,
                 \* generateChallenge() and the instant of the request; the
                 \* random part and the instant are never stored or compared
                 [challenge |-> DateStr(now) \o "-CR-", timestamp |-> "now"])
    /\ UNCHANGED <<mockSessions, mockInvoices, now, rng, timers,
                   issued, terminated, acceptedRead, readAgain, sent>>
    /\ UNCHANGED <<gwVars, gusVars, keepAliveVars>>

\* POST /online/Session/InitSigned : only arms the 500 ms timer
InitSigned ==
    /\ rng + 2 * (Len(timers) + 1) <= MaxDraws
    /\ now + InitSignedDelay <= MaxMinutes * MsPerMinute
    /\ timers' = Append(timers, now + InitSignedDelay)
    /\ UNCHANGED <<mockSessions, mockInvoices, now, rng, resp,
                   issued, terminated, acceptedRead, readAgain, sent>>
    /\ UNCHANGED <<gwVars, gusVars, keepAliveVars>>

\* the setTimeout callback of InitSigned: runs once its delay has elapsed
\* (timers of equal delay run in the order they were armed)
InitSignedTimeout ==
    /\ timers # <<>>
    /\ now >= Head(timers)
    /\ timers' = Tail(timers)
    /\ CreateSession("InitSigned")
    /\ UNCHANGED <<mockInvoices, now, terminated, acceptedRead, readAgain, sent>>
    /\ UNCHANGED <<gwVars, gusVars, keepAliveVars>>

\* POST /online/Session/InitToken
InitToken ==
    /\ rng + 2 * (Len(timers) + 1) <= MaxDraws
    /\ CreateSession("InitToken")
    /\ UNCHANGED <<mockInvoices, now, timers, terminated, acceptedRead, readAgain, sent>>
    /\ UNCHANGED <<gwVars, gusVars, keepAliveVars>>

\* GET /online/Session/Status
SessionStatus(h) ==
    /\ resp' =
         IF NotAuthorised(h)
         THEN Unauthorised("SessionStatus", h)
         ELSE Reply("SessionStatus", h, 200,
                 createSuccessResponse(
                    [processingCode |-> 200,
                     sessionStatus |->
                        [activeElements |-> 0,
                         processingElementsCount |-> 0,
                         timestampStart |-> mockSessions[h[1]].createdAt]]))
    /\ UNCHANGED <<mockSessions, mockInvoices, now, rng, timers,
                   issued, terminated, acceptedRead, readAgain, sent>>
    /\ UNCHANGED <<gwVars, gusVars, keepAliveVars>>

\* the store after `if (has) delete` (a variant that clears the store
\* comes first)
SessionsDeleteAll(h) ==
    IF ~Falsy(h) /\ h[1] \in DOMAIN mockSessions
    THEN EmptyMap
    ELSE mockSessions

SessionsDelete(h) ==
    IF ~Falsy(h) /\ h[1] \in DOMAIN mockSessions
    THEN [t \in DOMAIN mockSessions \ {h[1]} |-> mockSessions[t]]
    ELSE mockSessions

\* the answer of Terminate; `removed` is the "Terminated session" log line
TerminateReplyStrict(h) ==
    IF NotAuthorised(h)
    THEN Unauthorised("Terminate", h)
    ELSE Reply("Terminate", h, 200,
            createSuccessResponse([processingCode |-> 200, removed |-> TRUE]))

TerminateReply(h) ==
    Reply("Terminate", h, 200,
        createSuccessResponse(
            [processingCode |-> 200,
             removed |-> (~Falsy(h) /\ h[1] \in DOMAIN mockSessions)]))

\* GET /online/Session/Terminate
Terminate(h) ==
    /\ mockSessions' = SessionsDelete(h)
    /\ terminated' =
         IF ~Falsy(h) /\ h[1] \in DOMAIN mockSessions
         THEN terminated \cup {h[1]} ELSE terminated
    /\ resp' = TerminateReply(h)
    /\ UNCHANGED <<mockInvoices, now, rng, timers, issued, acceptedRead, readAgain, sent>>
    /\ UNCHANGED <<gwVars, gusVars, keepAliveVars>>

-----------------------------------------------------------------------------
(* Invoice handlers *)

\* mockInvoices.set(elementReferenceNumber, {...}) (a variant that replaces
\* the whole map comes first)
InvoicesSetAlone(ref, invoice) ==
    [r \in {ref} |-> invoice]

InvoicesSet(ref, invoice) ==
    [r \in DOMAIN mockInvoices \cup {ref} |->
        IF r = ref THEN invoice ELSE mockInvoices[r]]

\* PUT /online/Invoice/Send
SendInvoice(h) ==
    /\ IF NotAuthorised(h)
       THEN /\ resp' = Unauthorised("SendInvoice", h)
            /\ UNCHANGED <<mockSessions, mockInvoices, now, rng, timers,
                           issued, terminated, acceptedRead, readAgain, sent>>
       ELSE LET session == mockSessions[h[1]]
                elementReferenceNumber ==
                    generateReferenceNumber(now, randomBytes(1))
                ksefReferenceNumber ==
                    generateKSeFNumber(session.contextNip, now, randomBytes(2))
            IN  /\ rng + 2 * (Len(timers) + 1) <= MaxDraws
                /\ rng' = rng + 2
                /\ mockInvoices' =
                     InvoicesSet(elementReferenceNumber,
                        [ksefReferenceNumber |-> ksefReferenceNumber,
                         sessionToken |-> h[1],
                         status |-> "processing",
                         createdAt |-> now,
                         invoiceNumber |->
                             "INV_" \o session.contextNip \o "_" \o ToString(now)])
                /\ resp' = Reply("SendInvoice", h, 202,
                             createSuccessResponse(
                                [elementReferenceNumber |-> elementReferenceNumber,
                                 processingCode |-> 100]))
                /\ sent' = sent + 1
                /\ UNCHANGED <<mockSessions, now, timers,
                               issued, terminated, acceptedRead, readAgain>>
    /\ UNCHANGED <<gwVars, gusVars, keepAliveVars>>

\* GET /online/Invoice/Status/:referenceNumber
InvoiceStatus(h, referenceNumber) ==
    /\ IF NotAuthorised(h)
       THEN /\ resp' = Unauthorised("InvoiceStatus", h)
            /\ UNCHANGED <<mockSessions, mockInvoices, now, rng, timers,
                           issued, terminated, acceptedRead, readAgain, sent>>
       ELSE IF referenceNumber \notin DOMAIN mockInvoices
       THEN /\ resp' = NotFound("InvoiceStatus", h)
            /\ UNCHANGED <<mockSessions, mockInvoices, now, rng, timers,
                           issued, terminated, acceptedRead, readAgain, sent>>
       ELSE LET invoice == mockInvoices[referenceNumber]
                accepted == AgeOverThreshold(now, invoice.createdAt)
            IN  /\ mockInvoices' =
                     IF accepted
                     THEN [mockInvoices EXCEPT ![referenceNumber].status = "accepted"]
                     ELSE mockInvoices
                /\ acceptedRead' =
                     IF accepted THEN acceptedRead \cup {referenceNumber}
                     ELSE acceptedRead
                /\ readAgain' =
                     IF referenceNumber \in acceptedRead
                     THEN readAgain \cup {referenceNumber} ELSE readAgain
                /\ resp' = Reply("InvoiceStatus", h, 200,
                             createSuccessResponse(
                                [elementReferenceNumber |-> referenceNumber,
                                 processingCode |-> IF accepted THEN 200 ELSE 100,
                                 \* undefined (left out of the JSON) unless accepted
                                 invoiceStatus |->
                                    IF accepted
                                    THEN <<[invoiceNumber |-> invoice.invoiceNumber,
                                            ksefReferenceNumber |->
                                                invoice.ksefReferenceNumber,
                                            acquisitionTimestamp |->
                                                invoice.createdAt]>>
                                    ELSE <<>>]))
                /\ UNCHANGED <<mockSessions, now, rng, timers, issued, terminated, sent>>
    /\ UNCHANGED <<gwVars, gusVars, keepAliveVars>>

\* Array.from(mockInvoices.values()).find(inv => inv.ksefReferenceNumber === k)
\* : the references of the stored invoices with that KSeF number
FindByKsefAccepted(ksefReferenceNumber) ==
    {r \in DOMAIN mockInvoices :
        /\ mockInvoices[r].ksefReferenceNumber = ksefReferenceNumber
        /\ mockInvoices[r].status = "accepted"}

FindByKsef(ksefReferenceNumber) ==
    {r \in DOMAIN mockInvoices :
        mockInvoices[r].ksefReferenceNumber = ksefReferenceNumber}

\* GET /online/Invoice/Get/:ksefReferenceNumber
GetInvoice(h, ksefReferenceNumber) ==
    /\ resp' =
         IF NotAuthorised(h)
         THEN Unauthorised("GetInvoice", h)
         ELSE IF FindByKsef(ksefReferenceNumber) = {}
         THEN NotFound("GetInvoice", h)
         ELSE LET invoice ==
                      mockInvoices[CHOOSE r \in FindByKsef(ksefReferenceNumber) : TRUE]
              IN  Reply("GetInvoice", h, 200,
                     [contentType |-> "application/octet-stream",
                      InvoiceNumber |-> invoice.invoiceNumber,
                      IssueDate |-> DateStr(invoice.createdAt),
                      KSeFReferenceNumber |-> invoice.ksefReferenceNumber])
    /\ UNCHANGED <<mockSessions, mockInvoices, now, rng, timers,
                   issued, terminated, acceptedRead, readAgain, sent>>
    /\ UNCHANGED <<gwVars, gusVars, keepAliveVars>>

\* Math.min(Number(PageSize), 5) as an array length (a negative length is 0)
PageSizes == {0, 3, 5, 100}

\* Math.min(Number(PageSize), 5) (a variant with a cap of 6 comes first)
QueryLengthCapSix(pageSize) ==
    IF pageSize < 0 THEN 0 ELSE IF pageSize < 6 THEN pageSize ELSE 6

QueryLength(pageSize) ==
    IF pageSize < 0 THEN 0 ELSE IF pageSize < 5 THEN pageSize ELSE 5

\* POST /online/Query/Invoice/Sync
QueryInvoiceSync(h, pageSize) ==
    /\ resp' =
         IF NotAuthorised(h)
         THEN Unauthorised("QueryInvoiceSync", h)
         ELSE LET session == mockSessions[h[1]]
                  mockInvoiceList ==
                      \* entry i is numbered Date.now() + i and dated i days
                      \* before the request (offsets from the request's instant)
                      [i \in 1..QueryLength(pageSize) |->
                          [invoiceNumber |->
                              "INV_" \o session.contextNip \o "_now+"
                                  \o ToString(i - 1),
                           acquisitionTimestamp |-> 0 - (i - 1) * MsPerDay,
                           invoiceType |-> "VAT",
                           subjectType |-> "subject1"]]
              IN  Reply("QueryInvoiceSync", h, 200,
                     createSuccessResponse(
                        [invoiceHeaderList |-> mockInvoiceList,
                         numberOfElements |-> Len(mockInvoiceList),
                         pageSize |-> pageSize,
                         hasMoreElements |-> FALSE]))
    /\ UNCHANGED <<mockSessions, mockInvoices, now, rng, timers,
                   issued, terminated, acceptedRead, readAgain, sent>>
    /\ UNCHANGED <<gwVars, gusVars, keepAliveVars>>

\* POST /online/Credentials/GenerateToken
GenerateCredentialToken(h) ==
    /\ resp' =
         IF NotAuthorised(h)
         THEN Unauthorised("GenerateCredentialToken", h)
         ELSE Reply("GenerateCredentialToken", h, 200,
                 createSuccessResponse([authorisationToken |-> "hex"]))
    /\ UNCHANGED <<mockSessions, mockInvoices, now, rng, timers,
                   issued, terminated, acceptedRead, readAgain, sent>>
    /\ UNCHANGED <<gwVars, gusVars, keepAliveVars>>

\* GET /health (a variant that counts only the invoices of live sessions
\* comes first)
HealthBodyLiveInvoices ==
    [status |-> "healthy",
     activeSessions |-> Cardinality(DOMAIN mockSessions),
     storedInvoices |->
        Cardinality({r \in DOMAIN mockInvoices :
                        mockInvoices[r].sessionToken \in DOMAIN mockSessions})]

HealthBody ==
    [status |-> "healthy",
     activeSessions |-> Cardinality(DOMAIN mockSessions),
     storedInvoices |-> Cardinality(DOMAIN mockInvoices)]

Health ==
    /\ resp' = Reply("Health", NoHeader, 200, HealthBody)
    /\ UNCHANGED <<mockSessions, mockInvoices, now, rng, timers,
                   issued, terminated, acceptedRead, readAgain, sent>>
    /\ UNCHANGED <<gwVars, gusVars, keepAliveVars>>

\* the wall clock moves on between callbacks
Tick ==
    /\ \E t \in TimePoints : t > now /\ now' = t
    /\ UNCHANGED <<mockSessions, mockInvoices, rng, timers, resp,
                   issued, terminated, acceptedRead, readAgain, sent>>
    /\ UNCHANGED <<gwVars, gusVars, keepAliveVars>>

-----------------------------------------------------------------------------
(* process.env and the mode switch (config/ksef-config.ts, server.ts)      *)

\* a JavaScript value that may be undefined: <<>> or <<value>>
Undefined == <<>>

\* JavaScript truthiness of an optional string
Truthy(v) == v # Undefined /\ v[1] # ""

\* `v || d` for an optional string v and a string d
OrElse(v, d) == IF Truthy(v) THEN v[1] ELSE d

\* obj[key] for an object literal and a string key: an own property, else
\* one inherited from Object.prototype (under the keys the model tries, as
\* the text a template literal makes of it), else undefined
Lookup(obj, key) ==
    LET ObjectPrototype ==
           [constructor |-> "function Object() { [native code] }"]
    IN  IF key \in DOMAIN obj THEN <<obj[key]>>
        ELSE IF key \in DOMAIN ObjectPrototype THEN <<ObjectPrototype[key]>>
        ELSE Undefined

\* the values of process.env the model ranges over
EnvStates ==
    [USE_MOCK_KSEF    : {Undefined, <<"true">>, <<"false">>},
     USE_REAL_KSEF    : {Undefined, <<"true">>},
     NODE_ENV         : {Undefined, <<"development">>},
     KSEF_ENVIRONMENT : {Undefined, <<"demo">>},
     BACKEND_URL      : {Undefined, <<"https://backend.example">>},
     KSEF_API_URL     : {Undefined, <<"https://ksef.example">>}]

\* KSEF_ENVIRONMENTS of config/ksef-config.ts
KSEF_ENVIRONMENTS_API ==
    [test |-> "https://ksef-test.mf.gov.pl/api",
     demo |-> "https://ksef-demo.mf.gov.pl/api",
     prod |-> "https://ksef.mf.gov.pl/api"]

\* getKSeFConfig(), reading the environment e
getKSeFConfig(e) ==
    LET useMock ==
            \/ e.USE_MOCK_KSEF = <<"true">>
            \/ (e.NODE_ENV = <<"development">> /\ e.USE_MOCK_KSEF # <<"false">>)
        environment == OrElse(e.KSEF_ENVIRONMENT, "test")
        baseUrl == OrElse(e.BACKEND_URL, "http://localhost:3001")
    IN  [useMock |-> useMock,
         mockBaseUrl |-> baseUrl \o "/api/ksef-mock",
         realBaseUrl |-> Lookup(KSEF_ENVIRONMENTS_API, environment),
         environment |-> environment]

\* getKSeFUrl() called without an endpoint, as GET /config calls it
getKSeFUrl(e) ==
    LET config == getKSeFConfig(e)
    IN  IF config.useMock THEN <<config.mockBaseUrl>> ELSE config.realBaseUrl

isMockMode(e) == getKSeFConfig(e).useMock

\* server.ts, when the module is loaded: mount the mock router or not
MountsMock(e) == e.USE_MOCK_KSEF # <<"false">>

\* a response sent outside the mock router, with the route it answers
GwReply(route, status, body) ==
    [route |-> route, status |-> status, body |-> body]

\* GET /api/ksef/config (message, features and debug.timestamp are left out:
\* the first two repeat the mode, the third is the instant of the request)
GetConfig ==
    /\ pc = "idle"
    /\ LET mockMode == isMockMode(env)
           baseUrl == getKSeFUrl(env)
       IN  gwResp' = GwReply("config", 200,
              [mode |-> IF mockMode THEN "mock" ELSE "real",
               baseUrl |-> baseUrl,
               environment |-> OrElse(env.KSEF_ENVIRONMENT, "test"),
               mockEnabled |-> mockMode,
               version |-> IF mockMode THEN "Mock v1.0" ELSE "Real API v2.4.0",
               debug |->
                  [envVars |->
                      [USE_MOCK_KSEF |-> env.USE_MOCK_KSEF,
                       USE_REAL_KSEF |-> env.USE_REAL_KSEF,
                       NODE_ENV |-> env.NODE_ENV,
                       BACKEND_URL |-> env.BACKEND_URL,
                       KSEF_ENVIRONMENT |-> env.KSEF_ENVIRONMENT],
                   detectedBackendUrl |->
                      OrElse(env.BACKEND_URL, "auto-detected")]])
    /\ UNCHANGED <<env, mockMounted, pc, req, calls, steps>>
    /\ UNCHANGED <<mockVars, gusVars, keepAliveVars>>

\* a request to a path under /api/ksef-mock: the mock router answers when it
\* was mounted (here GET /health on the empty maps), Express answers 404
\* when it was not
MockRouteRequest ==
    /\ pc = "idle"
    /\ gwResp' =
         IF mockMounted
         THEN GwReply("ksef-mock", 200, HealthBody)
         ELSE GwReply("ksef-mock", 404, NoBody)
    /\ UNCHANGED <<env, mockMounted, pc, req, calls, steps>>
    /\ UNCHANGED <<mockVars, gusVars, keepAliveVars>>

\* an assignment to, or a delete of, one variable of process.env while the
\* server runs
SetEnv ==
    /\ pc = "idle"
    /\ \E e \in EnvStates :
          /\ Cardinality({n \in DOMAIN env : e[n] # env[n]}) = 1
          /\ env' = e
    /\ UNCHANGED <<mockMounted, pc, req, calls, gwResp, steps>>
    /\ UNCHANGED <<mockVars, gusVars, keepAliveVars>>

-----------------------------------------------------------------------------
(* The real gateway (routes/ksef.ts): helpers                              *)

\* KSEF_ENVIRONMENTS of routes/ksef.ts
KSEF_ENVIRONMENTS ==
    [test |-> "https://ksef-test.mf.gov.pl",
     demo |-> "https://ksef-demo.mf.gov.pl",
     prod |-> "https://ksef.mf.gov.pl"]

\* the hosts of the official KSeF service
OfficialHosts == {KSEF_ENVIRONMENTS[k] : k \in DOMAIN KSEF_ENVIRONMENTS}

\* the `environment` field of a request body
ReqEnvironments == {Undefined, <<"PROD">>, <<"production">>}

\* the environment names tried on /terminate-session: those of
\* ReqEnvironments, the other two names of KSEF_ENVIRONMENTS (one of them
\* capitalised), a name of no environment, and a name every object has
EnvironmentNames ==
    ReqEnvironments \cup
       {<<"test">>, <<"Demo">>, <<"staging">>, <<"constructor">>}

\* String.prototype.toLowerCase on the strings of EnvironmentNames
toLowerCase(str) ==
    IF str = "PROD" THEN "prod" ELSE IF str = "Demo" THEN "demo" ELSE str

\* getKsefUrl(environment), reading process.env.KSEF_API_URL
getKsefUrl(environment) ==
    LET hit == IF environment = Undefined THEN Undefined
               ELSE Lookup(KSEF_ENVIRONMENTS, toLowerCase(environment[1]))
    IN  IF Truthy(hit) THEN hit[1]
        ELSE OrElse(env.KSEF_API_URL, KSEF_ENVIRONMENTS.test)

\* an outbound axios call
Call(method, base, path) == [method |-> method, base |-> base, path |-> path]

ChallengePath == "/api/online/Session/AuthorisationChallenge"
PublicKeyPath == "/api/online/Session/AuthorisationChallenge/PublicKey"
InitTokenPath == "/api/online/Session/InitToken"

\* What the upstream does with a call: a 2xx answer (data names the payload),
\* a non-2xx answer with its status and body, or no answer at all (timeout,
\* refused connection).
UpstreamBody == "upstream error body"
Answers(payloads) ==
    {[kind |-> "ok", status |-> 200, data |-> d] : d \in payloads}
    \cup {[kind |-> "http", status |-> st, data |-> UpstreamBody] :
            st \in {400, 503}}
    \cup {[kind |-> "none", status |-> 0, data |-> ""]}

\* the payload of a 2xx answer to the challenge request
ChallengeData ==
    [challenge |-> "20250101-CR-0000000000-0000000000-00",
     timestamp |-> "2025-01-01T00:00:00.000Z"]

\* the payload of a 2xx answer to InitToken
SessionData ==
    [sessionToken |-> [token |-> "upstream-session-token"],
     timestamp |-> "2025-01-01T00:00:01.000Z",
     referenceNumber |-> "20250101-SE-0000000000-0000000000-00"]

\* a function's result: it returned a value or threw an error
Returned(v) == [ok |-> TRUE, value |-> v]
Thrown(e) == [ok |-> FALSE, error |-> e]

\* new Error(message): carries no `response`
Error(message) == [response |-> Undefined, message |-> message]

\* the error axios rejects with
AxiosError(answer) ==
    IF answer.kind = "http"
    THEN [response |-> <<[status |-> answer.status, data |-> answer.data]>>,
          message |-> "Request failed with status code " \o ToString(answer.status)]
    ELSE [response |-> Undefined, message |-> "timeout of 30000ms exceeded"]

\* getAuthorisationChallenge, once the upstream has answered
getAuthorisationChallenge(answer) ==
    IF answer.kind = "ok"
    THEN Returned(ChallengeData)
    ELSE Thrown(Error("Failed to get authorization challenge from KSeF API"))

\* getKsefPublicKey, once the upstream has answered; a variant that falls
\* back to an empty key instead of throwing comes first
getKsefPublicKeyFallback(answer) ==
    Returned(IF answer.kind = "ok" THEN answer.data ELSE "")

getKsefPublicKey(answer) ==
    IF answer.kind = "ok"
    THEN Returned(answer.data)
    ELSE Thrown(Error("Failed to get KSeF public certificate from official API"))

\* the public keys the upstream may serve: a PEM key, or text that is none
PublicKeys == {"-----BEGIN PUBLIC KEY-----", "not a key"}

\* crypto.publicEncrypt(...).toString('base64'): throws unless the key parses
publicEncrypt(key, tokenString) ==
    IF key = "-----BEGIN PUBLIC KEY-----"
    THEN Returned("rsa(" \o tokenString \o ")")
    ELSE Thrown(Error("error:1E08010C:DECODER routines::unsupported"))

\* the catch block of a route: error.response?.status || 500 and
\* error.response?.data || error.message
ErrorReply(route, title, error) ==
    LET response == error.response
    IN  GwReply(route,
            IF response # Undefined /\ response[1].status # 0
            THEN response[1].status ELSE 500,
            [error |-> title,
             details |-> IF response # Undefined /\ response[1].data # ""
                         THEN response[1].data ELSE error.message])

\* an entry of the step log
Step(name, ok, answer) == [name |-> name, ok |-> ok, answer |-> answer]

\* what publicEncrypt did, in the shape of an upstream answer
Local(ok) == [kind |-> IF ok THEN "ok" ELSE "throw", status |-> 0, data |-> ""]

NoRequest == [route |-> "none"]

\* the handler has sent its response: no request is in progress
Finished ==
    /\ pc' = "idle"
    /\ req' = NoRequest
    /\ calls' = <<>>

-----------------------------------------------------------------------------
(* The real gateway: the two routes.  A route handler is an async function: *)
(* it runs from the request to its first await, and then from each answer  *)
(* of the upstream to the next await or to the response.                   *)

\* POST /authorization-challenge: validation, then the challenge request
PostAuthorizationChallenge(ctx, environment) ==
    /\ pc = "idle"
    /\ steps' = <<>>
    /\ IF ctx = <<>> \/ ctx[1].type = "" \/ ctx[1].identifier = ""
       THEN /\ gwResp' = GwReply("authorization-challenge", 400,
                  [error |-> "Missing required fields: contextIdentifier.type and contextIdentifier.identifier"])
            /\ UNCHANGED <<req, calls, pc>>
       ELSE /\ req' = [route |-> "authorization-challenge",
                       contextIdentifier |-> ctx[1], environment |-> environment]
            /\ calls' = <<Call("POST", getKsefUrl(environment), ChallengePath)>>
            /\ pc' = "ac:challenge"
            /\ UNCHANGED gwResp
    /\ UNCHANGED <<env, mockMounted>>
    /\ UNCHANGED <<mockVars, gusVars, keepAliveVars>>

\* the XML of /authorization-challenge, before base64: its variable parts
XmlToSign(challenge, contextIdentifier) ==
    [Challenge |-> challenge,
     IdentifierType |-> IF contextIdentifier.type = "onip"
                        THEN "ns3:SubjectIdentifierByCompanyType"
                        ELSE "ns3:SubjectIdentifierToPersonType",
     Identifier |-> contextIdentifier.identifier]

\* POST /authorization-challenge, from the upstream's answer to the response
AuthorizationChallengeAnswered(answer) ==
    /\ pc = "ac:challenge"
    /\ LET result == getAuthorisationChallenge(answer)
       IN  /\ steps' = Append(steps, Step("challenge", answer.kind = "ok", answer))
           /\ gwResp' =
                IF result.ok
                THEN GwReply("authorization-challenge", 200,
                        [challenge |-> result.value.challenge,
                         timestamp |-> result.value.timestamp,
                         xmlToSign |-> XmlToSign(result.value.challenge,
                                                 req.contextIdentifier)])
                ELSE ErrorReply("authorization-challenge",
                        "Failed to request authorization challenge", result.error)
    /\ Finished
    /\ UNCHANGED <<env, mockMounted>>
    /\ UNCHANGED <<mockVars, gusVars, keepAliveVars>>

\* the nip and authToken fields of a request body ("" when absent or empty)
Nips == {"", MockNip}
AuthTokens == {"", "ksef-auth-token"}

\* POST /init-session-token: validation, then step 1, the challenge request
PostInitSessionToken(nip, authToken, environment) ==
    /\ pc = "idle"
    /\ steps' = <<>>
    /\ IF nip = "" \/ authToken = ""
       THEN /\ gwResp' = GwReply("init-session-token", 400,
                  [error |-> "Missing required fields: nip and authToken"])
            /\ UNCHANGED <<req, calls, pc>>
       ELSE /\ req' = [route |-> "init-session-token", nip |-> nip,
                       authToken |-> authToken, environment |-> environment]
            /\ calls' = <<Call("POST", getKsefUrl(environment), ChallengePath)>>
            /\ pc' = "ist:challenge"
            /\ UNCHANGED gwResp
    /\ UNCHANGED <<env, mockMounted>>
    /\ UNCHANGED <<mockVars, gusVars, keepAliveVars>>

InitTokenFailed == "Failed to initialize session with token"

\* POST /init-session-token, from the answer to the challenge request to
\* step 2, the public-key request
InitSessionChallengeAnswered(answer) ==
    /\ pc = "ist:challenge"
    /\ LET result == getAuthorisationChallenge(answer)
       IN  /\ steps' = Append(steps, Step("challenge", answer.kind = "ok", answer))
           /\ IF result.ok
              THEN /\ calls' = Append(calls,
                          Call("GET", getKsefUrl(req.environment), PublicKeyPath))
                   /\ pc' = "ist:publicKey"
                   /\ UNCHANGED <<req, gwResp>>
              ELSE /\ gwResp' = ErrorReply("init-session-token",
                                   InitTokenFailed, result.error)
                   /\ Finished
    /\ UNCHANGED <<env, mockMounted>>
    /\ UNCHANGED <<mockVars, gusVars, keepAliveVars>>

\* POST /init-session-token, from the answer to the public-key request
\* through step 3, the encryption of timestamp|authToken, to step 5, the
\* InitToken request
InitSessionPublicKeyAnswered(answer) ==
    /\ pc = "ist:publicKey"
    /\ LET publicKey == getKsefPublicKey(answer)
           tokenString == ChallengeData.timestamp \o "|" \o req.authToken
           encryptedToken == publicEncrypt(publicKey.value, tokenString)
           fetched == Step("publicKey", answer.kind = "ok", answer)
       IN  IF ~publicKey.ok
           THEN /\ steps' = Append(steps, fetched)
                /\ gwResp' = ErrorReply("init-session-token",
                                InitTokenFailed, publicKey.error)
                /\ Finished
           ELSE /\ steps' = steps \o
                      <<fetched,
                        Step("encrypt", encryptedToken.ok, Local(encryptedToken.ok))>>
                /\ IF encryptedToken.ok
                   THEN /\ calls' = Append(calls,
                               Call("POST", getKsefUrl(req.environment), InitTokenPath))
                        /\ pc' = "ist:initToken"
                        /\ UNCHANGED <<req, gwResp>>
                   ELSE /\ gwResp' = ErrorReply("init-session-token",
                                        InitTokenFailed, encryptedToken.error)
                        /\ Finished
    /\ UNCHANGED <<env, mockMounted>>
    /\ UNCHANGED <<mockVars, gusVars, keepAliveVars>>

\* POST /init-session-token, from the answer to InitToken to the response
InitSessionInitTokenAnswered(answer) ==
    /\ pc = "ist:initToken"
    /\ steps' = Append(steps, Step("initToken", answer.kind = "ok", answer))
    /\ gwResp' =
         IF answer.kind = "ok"
         THEN GwReply("init-session-token", 200,
                 [sessionToken |-> SessionData.sessionToken.token,
                  timestamp |-> SessionData.timestamp,
                  referenceNumber |-> SessionData.referenceNumber,
                  rawResponse |-> SessionData])
         ELSE ErrorReply("init-session-token", InitTokenFailed, AxiosError(answer))
    /\ Finished
    /\ UNCHANGED <<env, mockMounted>>
    /\ UNCHANGED <<mockVars, gusVars, keepAliveVars>>

-----------------------------------------------------------------------------
(* Bytes, base64, UTF-8 and gzip, as the routes below use them *)

\* byte sequences of the requests are at most MaxBytes long
MaxBytes == 2

\* 'A', the two bytes of U+00E9 (0xC3 0xA9), and 0xFF, which no UTF-8 text
\* contains
ByteAlphabet == {65, 195, 169, 255}
\* every sequence over ByteAlphabet of length at most MaxBytes, each as a
\* tuple: the prefixes of the sequences of length MaxBytes
ByteSeqs ==
    {SubSeq(B, 1, n) : B \in [1..MaxBytes -> ByteAlphabet], n \in 0..MaxBytes}

\* a base64 string is the sequence of its characters: the values 0..63 of
\* the alphabet and Pad for '='; "" is <<>>
Pad == 64

\* base64(B), the encoding the caller applies (RFC 4648)
RECURSIVE base64(_)
base64(B) ==
    IF Len(B) = 0 THEN <<>>
    ELSE IF Len(B) = 1
    THEN <<B[1] \div 4, (B[1] % 4) * 16, Pad, Pad>>
    ELSE IF Len(B) = 2
    THEN <<B[1] \div 4, (B[1] % 4) * 16 + (B[2] \div 16), (B[2] % 16) * 4, Pad>>
    ELSE <<B[1] \div 4, (B[1] % 4) * 16 + (B[2] \div 16),
           (B[2] % 16) * 4 + (B[3] \div 64), B[3] % 64>>
         \o base64(SubSeq(B, 4, Len(B)))

\* the bytes of the characters d of the base64 alphabet
RECURSIVE DecodeSextets(_)
DecodeSextets(d) ==
    IF Len(d) < 2 THEN <<>>
    ELSE IF Len(d) = 2
    THEN <<d[1] * 4 + (d[2] \div 16)>>
    ELSE IF Len(d) = 3
    THEN <<d[1] * 4 + (d[2] \div 16), (d[2] % 16) * 16 + (d[3] \div 4)>>
    ELSE <<d[1] * 4 + (d[2] \div 16), (d[2] % 16) * 16 + (d[3] \div 4),
           (d[3] % 4) * 64 + d[4]>>
         \o DecodeSextets(SubSeq(d, 5, Len(d)))

\* Buffer.from(str, 'base64'): decodes up to the padding and never throws
BufferFrom(str) ==
    DecodeSextets(SelectSeq(str, LAMBDA c : c # Pad))

\* U+FFFD, what a UTF-8 decoder puts for bytes that are not UTF-8
Replacement == 65533

\* buffer.toString('utf-8'): the code points of the text (one- and two-byte
\* sequences; any other byte, a lead byte of a longer sequence included,
\* gives U+FFFD here)
RECURSIVE toStringUtf8(_)
toStringUtf8(buf) ==
    IF Len(buf) = 0 THEN <<>>
    ELSE IF buf[1] < 128
    THEN <<buf[1]>> \o toStringUtf8(Tail(buf))
    ELSE IF /\ buf[1] >= 194 /\ buf[1] <= 223
            /\ Len(buf) >= 2 /\ buf[2] >= 128 /\ buf[2] <= 191
    THEN <<(buf[1] - 192) * 64 + (buf[2] - 128)>>
         \o toStringUtf8(SubSeq(buf, 3, Len(buf)))
    ELSE <<Replacement>> \o toStringUtf8(Tail(buf))

\* the UTF-8 bytes of a text whose code points are below 0x10000
RECURSIVE Utf8Bytes(_)
Utf8Bytes(text) ==
    IF Len(text) = 0 THEN <<>>
    ELSE (IF text[1] < 128 THEN <<text[1]>>
          ELSE IF text[1] < 2048
          THEN <<192 + (text[1] \div 64), 128 + (text[1] % 64)>>
          ELSE <<224 + (text[1] \div 4096), 128 + ((text[1] \div 64) % 64),
                 128 + (text[1] % 64)>>)
         \o Utf8Bytes(Tail(text))

\* a gzip member is kept as its two magic bytes 0x1f 0x8b followed by the
\* data it holds (header fields, deflate coding and trailer are left out)
GzipMagic == <<31, 139>>
Gzip(data) == GzipMagic \o data

\* zlib.gunzipSync(buffer): the data of the member, or it throws: the input
\* ends before the header does, the header does not start with the magic
\* bytes, or nothing follows them
gunzipSync(buffer) ==
    IF Len(buffer) < 2
    THEN Thrown(Error("unexpected end of file"))
    ELSE IF SubSeq(buffer, 1, 2) # GzipMagic
    THEN Thrown(Error("incorrect header check"))
    ELSE IF Len(buffer) = 2
    THEN Thrown(Error("unexpected end of file"))
    ELSE Returned(SubSeq(buffer, 3, Len(buffer)))

\* what a route hands to axios as request data: a string or a Buffer
String(text) == [type |-> "string", value |-> text]
Buffer(bytes) == [type |-> "Buffer", value |-> bytes]

\* the bytes axios writes for request data: a Buffer as it is, a string in
\* UTF-8
WireBytes(data) ==
    IF data.type = "Buffer" THEN data.value ELSE Utf8Bytes(data.value)

\* an outbound axios call that carries a body
Send(method, base, path, contentType, data) ==
    [method |-> method, base |-> base, path |-> path,
     contentType |-> contentType, data |-> data]

\* the base64 fields of the requests: absent or "" (<<>>), or the base64 of
\* a byte sequence or of a gzip member
GzipMembers == {Gzip(B) : B \in {<<65>>, <<195, 169>>, <<255>>}}
Base64Inputs == {base64(B) : B \in ByteSeqs \cup GzipMembers}

\* the session-token header, and the sessionToken field of a body
SessionTokens == {Undefined, <<"upstream-session-token">>}

-----------------------------------------------------------------------------
(* The real gateway: the routes that make one outbound call *)

\* return res.status(400).json({error}) before any call is made
Rejected(route, message) ==
    /\ gwResp' = GwReply(route, 400, [error |-> message])
    /\ UNCHANGED <<req, calls, pc>>

\* the handler reaches its await of axios; nothing has been sent yet in
\* answer to this request
Awaits(request, call, at) ==
    /\ req' = request
    /\ calls' = <<call>>
    /\ pc' = at
    /\ gwResp' = GwReply("none", 0, NoBody)

\* From the upstream's answer to the response: res.json on a 2xx answer,
\* the catch block otherwise.  A variant that repeats the call once after a
\* failure comes first.
AnsweredRetrying(route, at, title, answer, okBody) ==
    /\ pc = at
    /\ steps' = Append(steps, Step(at, answer.kind = "ok", answer))
    /\ IF answer.kind # "ok" /\ Len(calls) < 2
       THEN /\ calls' = Append(calls, calls[Len(calls)])
            /\ UNCHANGED <<pc, req, gwResp>>
       ELSE /\ gwResp' =
                 IF answer.kind = "ok"
                 THEN GwReply(route, 200, okBody)
                 ELSE ErrorReply(route, title, AxiosError(answer))
            /\ Finished
    /\ UNCHANGED <<env, mockMounted>>
    /\ UNCHANGED <<mockVars, gusVars, keepAliveVars>>

Answered(route, at, title, answer, okBody) ==
    /\ pc = at
    /\ steps' = Append(steps, Step(at, answer.kind = "ok", answer))
    /\ gwResp' =
         IF answer.kind = "ok"
         THEN GwReply(route, 200, okBody)
         ELSE ErrorReply(route, title, AxiosError(answer))
    /\ Finished
    /\ UNCHANGED <<env, mockMounted>>
    /\ UNCHANGED <<mockVars, gusVars, keepAliveVars>>

InitSignedPath == "/api/online/Session/InitSigned"
SendPath == "/api/online/Invoice/Send"
StatusPath == "/api/online/Invoice/Status/"
GetPath == "/api/online/Invoice/Get/"
QueryPath == "/api/online/Query/Invoice/Sync"
TerminatePath == "/api/online/Session/Terminate"
OctetStream == "application/octet-stream; charset=utf-8"

\* POST /request-session-token: validation, decoding, then InitSigned
PostRequestSessionToken(signedXmlBase64, environment) ==
    /\ pc = "idle"
    /\ steps' = <<>>
    /\ IF signedXmlBase64 = <<>>
       THEN Rejected("request-session-token",
                     "Missing required field: signedXmlBase64")
       ELSE LET decodedBuffer == BufferFrom(signedXmlBase64)
                signedXmlContent == toStringUtf8(decodedBuffer)
            IN  Awaits([route |-> "request-session-token",
                        signedXmlBase64 |-> signedXmlBase64,
                        environment |-> environment],
                       Send("POST", getKsefUrl(environment), InitSignedPath,
                            OctetStream, String(signedXmlContent)),
                       "rst:initSigned")
    /\ UNCHANGED <<env, mockMounted>>
    /\ UNCHANGED <<mockVars, gusVars, keepAliveVars>>

\* POST /request-session-token, from the upstream's answer to the response
RequestSessionTokenAnswered(answer) ==
    Answered("request-session-token", "rst:initSigned",
             "Failed to generate session token", answer,
             [sessionToken |-> SessionData.sessionToken.token,
              timestamp |-> SessionData.timestamp,
              referenceNumber |-> SessionData.referenceNumber,
              message |-> "Session token generated successfully. Use this token for all authenticated operations."])

\* the uploaded file of a multipart request (req.file): none, or its buffer
Files == {Undefined, <<<<65>>>>}

\* the text /init-session-signed sends, or the 400 it answers
signedXmlContent(signedXmlBase64, compressed, file) ==
    IF signedXmlBase64 # <<>>
    THEN LET decodedBuffer == BufferFrom(signedXmlBase64)
             inflated == gunzipSync(decodedBuffer)
         IN  IF ~compressed THEN Returned(toStringUtf8(decodedBuffer))
             ELSE IF inflated.ok THEN Returned(toStringUtf8(inflated.value))
             ELSE Thrown(Error("Invalid compressed base64 encoded XML"))
    ELSE IF file # Undefined THEN Returned(toStringUtf8(file[1]))
    ELSE Thrown(Error("No signed XML provided. Use signedXmlBase64 field with base64 encoded XML"))

\* POST /init-session-signed: decoding (and gunzip when compressed), then
\* InitSigned
PostInitSessionSigned(signedXmlBase64, compressed, file, environment) ==
    /\ pc = "idle"
    /\ steps' = <<>>
    /\ LET content == signedXmlContent(signedXmlBase64, compressed, file)
       IN  IF ~content.ok
           THEN Rejected("init-session-signed", content.error.message)
           ELSE Awaits([route |-> "init-session-signed",
                        signedXmlBase64 |-> signedXmlBase64,
                        compressed |-> compressed,
                        environment |-> environment],
                       Send("POST", getKsefUrl(environment), InitSignedPath,
                            OctetStream, String(content.value)),
                       "iss:initSigned")
    /\ UNCHANGED <<env, mockMounted>>
    /\ UNCHANGED <<mockVars, gusVars, keepAliveVars>>

\* POST /init-session-signed, from the upstream's answer to the response
InitSessionSignedAnswered(answer) ==
    Answered("init-session-signed", "iss:initSigned",
             "Failed to initialize session", answer,
             [sessionToken |-> SessionData.sessionToken,
              timestamp |-> SessionData.timestamp,
              referenceNumber |-> SessionData.referenceNumber])

\* the contentType field of a /send-invoice body: absent, or a string
\* (the empty string included)
ContentTypes == {Undefined, <<"">>, <<"xml">>, <<"gzip">>, <<"zip">>, <<"pdf">>}
\* validContentTypes (a variant that lets "pdf" through comes first)
validContentTypesAny == {"xml", "gzip", "zip", "pdf"}

validContentTypes == {"xml", "gzip", "zip"}

\* The switch of /send-invoice: what is sent and under which Content-Type,
\* or the error thrown while preparing it.  A variant that turns a zip
\* payload into text as well comes first.
contentToSendAllText(contentType, decodedBuffer) ==
    IF contentType = "gzip"
    THEN LET inflated == gunzipSync(decodedBuffer)
         IN  IF inflated.ok
             THEN Returned([data |-> String(toStringUtf8(inflated.value)),
                            httpContentType |-> "application/xml"])
             ELSE inflated
    ELSE Returned([data |-> String(toStringUtf8(decodedBuffer)),
                   httpContentType |-> IF contentType = "zip"
                                       THEN "application/zip"
                                       ELSE "application/xml"])

contentToSend(contentType, decodedBuffer) ==
    IF contentType = "zip"
    THEN Returned([data |-> Buffer(decodedBuffer),
                   httpContentType |-> "application/zip"])
    ELSE IF contentType = "gzip"
    THEN LET inflated == gunzipSync(decodedBuffer)
         IN  IF inflated.ok
             THEN Returned([data |-> String(toStringUtf8(inflated.value)),
                            httpContentType |-> "application/xml"])
             ELSE inflated
    ELSE Returned([data |-> String(toStringUtf8(decodedBuffer)),
                   httpContentType |-> "application/xml"])

\* POST /send-invoice: validation, decoding, then Invoice/Send
PostSendInvoice(sessionToken, invoiceXmlBase64, contentTypeField, environment) ==
    /\ pc = "idle"
    /\ steps' = <<>>
    /\ LET contentType == IF contentTypeField = Undefined THEN "xml"
                          ELSE contentTypeField[1]
           content == contentToSend(contentType, BufferFrom(invoiceXmlBase64))
       IN  IF ~Truthy(sessionToken) \/ invoiceXmlBase64 = <<>>
           THEN Rejected("send-invoice",
                    "Missing required fields: sessionToken and invoiceXmlBase64")
           ELSE IF contentType \notin validContentTypes
           THEN Rejected("send-invoice",
                    "Invalid contentType. Must be one of: xml, gzip, zip")
           ELSE IF ~content.ok
           THEN Rejected("send-invoice",
                    "Invalid base64 encoded " \o contentType \o " content: "
                       \o content.error.message)
           ELSE Awaits([route |-> "send-invoice",
                        invoiceXmlBase64 |-> invoiceXmlBase64,
                        contentType |-> contentTypeField,
                        environment |-> environment],
                       Send("POST", getKsefUrl(environment), SendPath,
                            content.value.httpContentType, content.value.data),
                       "si:send")
    /\ UNCHANGED <<env, mockMounted>>
    /\ UNCHANGED <<mockVars, gusVars, keepAliveVars>>

\* the payload of a 2xx answer to Invoice/Send
SendData ==
    [elementReferenceNumber |-> "20250101-EE-0000000000-0000000000-00",
     processingCode |-> "100",
     processingDescription |-> "processing",
     timestamp |-> "2025-01-01T00:00:02.000Z"]

\* POST /send-invoice, from the upstream's answer to the response
SendInvoiceAnswered(answer) ==
    Answered("send-invoice", "si:send", "Failed to send invoice", answer,
             SendData)

\* a route that needs only the session-token header: 400 without it, else
\* its one call
HeaderRoute(route, sessionToken, environment, method, path, at) ==
    /\ pc = "idle"
    /\ steps' = <<>>
    /\ IF ~Truthy(sessionToken)
       THEN Rejected(route, "Missing session token in headers")
       ELSE Awaits([route |-> route, environment |-> environment],
                   Call(method, getKsefUrl(environment), path), at)
    /\ UNCHANGED <<env, mockMounted>>
    /\ UNCHANGED <<mockVars, gusVars, keepAliveVars>>

\* the path parameters of the GET routes
Param == "REF"

\* GET /invoice-status/:referenceNumber
GetInvoiceStatus(sessionToken, environment) ==
    HeaderRoute("invoice-status", sessionToken, environment,
                "GET", StatusPath \o Param, "is:status")

\* the payload of a 2xx answer to Invoice/Status, passed on as it is
StatusData == [processingCode |-> "200", processingDescription |-> "accepted"]

InvoiceStatusAnswered(answer) ==
    Answered("invoice-status", "is:status", "Failed to get invoice status",
             answer, StatusData)

\* GET /invoice/:ksefId
GetInvoiceById(sessionToken, environment) ==
    HeaderRoute("invoice", sessionToken, environment,
                "GET", GetPath \o Param, "gi:get")

\* JSON.stringify of a Buffer, which is what responseType 'arraybuffer'
\* makes of a response body: {"type":"Buffer","data":[...]}
BufferJson(body) == "{type:Buffer,data:[bytes of " \o body \o "]}"

\* the answer as axios delivers it under responseType: 'arraybuffer'
AsArrayBuffer(answer) ==
    IF answer.kind = "http"
    THEN [answer EXCEPT !.data = BufferJson(answer.data)]
    ELSE answer

\* the bytes of a 2xx answer to Invoice/Get
InvoiceBytes == <<65, 195, 169>>

\* GET /invoice/:ksefId, from the upstream's answer to the response;
\* contentType is the Content-Type header of a 2xx answer: absent (<<>>) or
\* its value
InvoiceAnswered(answer, contentType) ==
    /\ pc = "gi:get"
    /\ steps' = Append(steps, Step("gi:get", answer.kind = "ok", answer))
    /\ gwResp' =
         IF answer.kind = "ok"
         THEN GwReply("invoice", 200,
                 [ksefId |-> Param,
                  invoiceBase64 |-> base64(InvoiceBytes),
                  contentType |-> OrElse(contentType, "application/xml")])
         ELSE ErrorReply("invoice", "Failed to get invoice",
                         AxiosError(AsArrayBuffer(answer)))
    /\ Finished
    /\ UNCHANGED <<env, mockMounted>>
    /\ UNCHANGED <<mockVars, gusVars, keepAliveVars>>

\* the dateFrom and dateTo fields of a /query-invoices body ("" when absent)
Dates == {"", "2025-01-01T00:00:00.000Z"}

\* POST /query-invoices: the header, then the dates, then Query/Invoice/Sync
\* with the default page (PageSize=10, PageOffset=0)
PostQueryInvoices(sessionToken, dateFrom, dateTo, environment) ==
    /\ pc = "idle"
    /\ steps' = <<>>
    /\ IF ~Truthy(sessionToken)
       THEN Rejected("query-invoices", "Missing session token in headers")
       ELSE IF dateFrom = "" \/ dateTo = ""
       THEN Rejected("query-invoices",
                "Missing required fields: dateFrom and dateTo (ISO format)")
       ELSE Awaits([route |-> "query-invoices", environment |-> environment],
                   Call("POST", getKsefUrl(environment),
                        QueryPath \o "?PageSize=10&PageOffset=0"),
                   "qi:query")
    /\ UNCHANGED <<env, mockMounted>>
    /\ UNCHANGED <<mockVars, gusVars, keepAliveVars>>

\* the payload of a 2xx answer to Query/Invoice/Sync, passed on as it is
QueryData == [numberOfElements |-> "0", hasMoreElements |-> "false"]

QueryInvoicesAnswered(answer) ==
    Answered("query-invoices", "qi:query", "Failed to query invoices",
             answer, QueryData)

\* POST /terminate-session
PostTerminateSession(sessionToken, environment) ==
    HeaderRoute("terminate-session", sessionToken, environment,
                "POST", TerminatePath, "ts:terminate")

TerminateSessionAnswered(answer) ==
    Answered("terminate-session", "ts:terminate",
             "Failed to terminate session", answer,
             [message |-> "Session terminated successfully",
              timestamp |-> "2025-01-01T00:00:03.000Z"])

-----------------------------------------------------------------------------
(* The GUS REGON client (GUSRegonService, one shared instance)              *)

\* the callers whose calls may be in progress together
Callers == {1, 2}

\* at most MaxLogins logins are sent
MaxLogins == 2

\* getConfig(useTestEnvironment): the parameter is undefined (<<>>) or a
\* boolean (<<b>>); neither GUS_API_KEY nor GUS_USER_KEY is set in
\* process.env
getConfig(useTestEnvironment) ==
    LET useTest == IF useTestEnvironment # Undefined
                   THEN useTestEnvironment[1] ELSE TRUE
        userKey == Undefined
        testConfig ==
           [userKey |-> "abcde12345abcde12345",
            baseUrl |-> "https://wyszukiwarkaregontest.stat.gov.pl/wsBIR/UslugaBIRzewnPubl.svc"]
        prodConfig ==
           [userKey |-> OrElse(userKey, testConfig.userKey),
            baseUrl |-> "https://wyszukiwarkaregon.stat.gov.pl/wsBIR/UslugaBIRzewnPubl.svc"]
    IN  [useTestEnvironment |-> useTest,
         userKey |-> IF useTest THEN testConfig.userKey
                     ELSE prodConfig.userKey,
         baseUrl |-> IF useTest THEN testConfig.baseUrl
                     ELSE prodConfig.baseUrl]

\* what a caller may pass as useTestEnvironment
UseTestEnvironments == {Undefined, <<TRUE>>, <<FALSE>>}

\* NIP and REGON arguments, as sequences of characters: NIPs well formed,
\* well formed once dashes are removed, and malformed; REGONs well formed
\* and malformed
GusNumbers ==
    [nip |-> {<<"5", "2", "6", "1", "0", "4", "0", "8", "2", "8">>,
              <<"5", "2", "6", "-", "1", "0", "4", "-", "0", "8", "-", "2", "8">>,
              <<"5", "2", "6">>},
     regon |-> {<<"0", "0", "0", "3", "3", "1", "5", "0", "1">>,
                <<"0", "0", "0", "3", "3", "1", "5", "0", "x">>}]

\* str.replace(/[-\s]/g, '')
Clean(str) == SelectSeq(str, LAMBDA ch : ch \notin {"-", " "})

\* /^\d{n}$/.test(str) for some n of lengths: 10 for a NIP, 9 or 14 for a
\* REGON
IsDigits(str, lengths) ==
    /\ Len(str) \in lengths
    /\ \A i \in 1..Len(str) :
          str[i] \in {"0", "1", "2", "3", "4", "5", "6", "7", "8", "9"}

\* a GUSResponse: the optional fields are <<>> when absent
GUSResponse(success, error, sessionId, environment) ==
    [success |-> success, error |-> error, sessionId |-> sessionId,
     environment |-> environment]

\* a caller with no call in progress
NoCall ==
    [pc |-> "idle", op |-> "none", useTestEnvironment |-> Undefined,
     login |-> <<>>, search |-> <<>>, logout |-> <<>>, result |-> <<>>]

\* a call of caller c returns result without having awaited
Returns(c, op, useTestEnvironment, result) ==
    /\ gusReq' = [gusReq EXCEPT ![c] =
                    [NoCall EXCEPT !.pc = "done", !.op = op,
                                   !.useTestEnvironment = useTestEnvironment,
                                   !.result = <<result>>]]
    /\ UNCHANGED <<gusRegonService, gusLogins>>

\* from "Ensure we have a session" to the first await of a search: either
\* login(useTestEnvironment) up to its axios.post, or the search request
EnsureSession(c, op, useTestEnvironment) ==
    IF gusRegonService.sessionId = Undefined \/ useTestEnvironment # Undefined
    THEN LET svc == IF useTestEnvironment # Undefined
                    THEN [config |-> getConfig(useTestEnvironment),
                          sessionId |-> Undefined]
                    ELSE gusRegonService
         IN  /\ gusLogins < MaxLogins
             /\ gusRegonService' = svc
             /\ gusLogins' = gusLogins + 1
             /\ gusReq' = [gusReq EXCEPT ![c] =
                   [NoCall EXCEPT
                      !.pc = "login", !.op = op,
                      !.useTestEnvironment = useTestEnvironment,
                      !.login = <<[issuer |-> svc.config.baseUrl,
                                   n |-> gusLogins + 1]>>]]
    ELSE /\ gusReq' = [gusReq EXCEPT ![c] =
               [NoCall EXCEPT
                  !.pc = "search", !.op = op,
                  !.useTestEnvironment = useTestEnvironment,
                  !.search = <<[base |-> gusRegonService.config.baseUrl,
                                sid |-> gusRegonService.sessionId]>>]]
         /\ UNCHANGED <<gusRegonService, gusLogins>>

\* searchByNIP(nip, useTestEnvironment), up to its first await
searchByNIP(c, nip, useTestEnvironment) ==
    /\ gusReq[c].pc = "idle"
    /\ IF ~IsDigits(Clean(nip), {10})
       THEN Returns(c, "searchByNIP", useTestEnvironment,
               GUSResponse(FALSE,
                  <<"Invalid NIP format. Expected 10 digits.">>,
                  Undefined, Undefined))
       ELSE EnsureSession(c, "searchByNIP", useTestEnvironment)
    /\ UNCHANGED <<mockVars, gwVars, keepAliveVars>>

\* searchByREGON(regon, useTestEnvironment), up to its first await
searchByREGON(c, regon, useTestEnvironment) ==
    /\ gusReq[c].pc = "idle"
    /\ IF ~IsDigits(Clean(regon), {9, 14})
       THEN Returns(c, "searchByREGON", useTestEnvironment,
               GUSResponse(FALSE,
                  <<"Invalid REGON format. Expected 9 or 14 digits.">>,
                  Undefined, Undefined))
       ELSE EnsureSession(c, "searchByREGON", useTestEnvironment)
    /\ UNCHANGED <<mockVars, gwVars, keepAliveVars>>

\* getCompanyDetails(regon, useTestEnvironment), up to its first await
getCompanyDetails(c, regon, useTestEnvironment) ==
    /\ gusReq[c].pc = "idle"
    /\ EnsureSession(c, "getCompanyDetails", useTestEnvironment)
    /\ UNCHANGED <<mockVars, gwVars, keepAliveVars>>

\* the login request of caller c is answered, with a session id
\* ("session"), with a ZalogujResult of fewer than ten characters
\* ("short": the id number 0 of its issuer), with an empty ZalogujResult
\* ("empty") or not at all ("error"); login() stores the ZalogujResult
\* before it checks it; then it returns, and the search that awaited it
\* posts its request to this.config.baseUrl with this.sessionId in the
\* header sid, or it throws and the search returns the failure
LoginAnswered(c, outcome) ==
    /\ gusReq[c].pc = "login"
    /\ IF outcome = "session"
       THEN LET svc == [gusRegonService EXCEPT
                          !.sessionId = <<gusReq[c].login[1]>>]
            IN  /\ gusRegonService' = svc
                /\ gusReq' = [gusReq EXCEPT
                      ![c].pc = "search",
                      ![c].search = <<[base |-> svc.config.baseUrl,
                                       sid |-> svc.sessionId]>>]
       ELSE /\ gusRegonService' =
                 IF outcome = "short"
                 THEN [gusRegonService EXCEPT
                         !.sessionId =
                            <<[issuer |-> gusReq[c].login[1].issuer,
                               n |-> 0]>>]
                 ELSE IF outcome = "empty"
                 THEN [gusRegonService EXCEPT !.sessionId = Undefined]
                 ELSE gusRegonService
            /\ gusReq' = [gusReq EXCEPT
                 ![c].pc = "done",
                 ![c].result =
                    <<GUSResponse(FALSE, <<"GUS API login failed">>,
                                  Undefined, Undefined)>>]
    /\ UNCHANGED gusLogins
    /\ UNCHANGED <<mockVars, gwVars, keepAliveVars>>

\* the search request of caller c is answered, with a company
\* ("company"), with a body the parser fails on ("unparsable") or not at
\* all ("error"); the response is parsed and the result is labelled with
\* the environment of this.config
SearchAnswered(c, outcome) ==
    /\ gusReq[c].pc = "search"
    /\ LET environment ==
              IF gusRegonService.config.useTestEnvironment
              THEN "test" ELSE "production"
           result ==
              IF outcome = "company"
              THEN GUSResponse(TRUE, Undefined,
                      gusRegonService.sessionId, <<environment>>)
              ELSE IF outcome = "unparsable"
              THEN GUSResponse(FALSE, <<"Failed to parse response">>,
                      Undefined, <<environment>>)
              ELSE GUSResponse(FALSE, <<"Failed to search">>,
                      Undefined, Undefined)
       IN  gusReq' = [gusReq EXCEPT ![c].pc = "done",
                                    ![c].result = <<result>>]
    /\ UNCHANGED <<gusRegonService, gusLogins>>
    /\ UNCHANGED <<mockVars, gwVars, keepAliveVars>>

\* logout(), up to its await: nothing to do without a session, else the
\* logout request is posted to this.config.baseUrl with this.sessionId in
\* the header sid
logout(c) ==
    /\ gusReq[c].pc = "idle"
    /\ gusReq' = [gusReq EXCEPT ![c] =
          IF gusRegonService.sessionId = Undefined
          THEN [NoCall EXCEPT !.pc = "done", !.op = "logout",
                              !.result = <<TRUE>>]
          ELSE [NoCall EXCEPT
                  !.pc = "logout", !.op = "logout",
                  !.logout = <<[base |-> gusRegonService.config.baseUrl,
                                sid |-> gusRegonService.sessionId]>>]]
    /\ UNCHANGED <<gusRegonService, gusLogins>>
    /\ UNCHANGED <<mockVars, gwVars, keepAliveVars>>

\* logout(), from its await on: the session id is dropped whether the
\* request was answered (answered, logout() returns true) or axios threw
\* (false)
LogoutAnswered(c, answered) ==
    /\ gusReq[c].pc = "logout"
    /\ gusRegonService' = [gusRegonService EXCEPT !.sessionId = Undefined]
    /\ gusReq' = [gusReq EXCEPT ![c].pc = "done",
                                ![c].result = <<answered>>]
    /\ UNCHANGED gusLogins
    /\ UNCHANGED <<mockVars, gwVars, keepAliveVars>>

\* the caller of a finished call has its result
GusReturn(c) ==
    /\ gusReq[c].pc = "done"
    /\ gusReq' = [gusReq EXCEPT ![c] = NoCall]
    /\ UNCHANGED <<gusRegonService, gusLogins>>
    /\ UNCHANGED <<mockVars, gwVars, keepAliveVars>>

-----------------------------------------------------------------------------
(* The keep-alive service (KeepAliveService, one instance)                  *)

\* at most MaxPings pings are started
MaxPings == 3

\* new KeepAliveService(), with config.enabled as process.env decides it
\* (lastPingTime, a Date, is left out)
KeepAliveService(enabled) ==
    [config |-> [url |-> "https://polishinvoicingback-1.onrender.com",
                 intervalMinutes |-> 10,
                 enabled |-> enabled],
     intervalId |-> Undefined,
     lastPingSuccess |-> FALSE,
     totalPings |-> 0,
     successfulPings |-> 0]

\* start()
start ==
    /\ IF ~keepAliveService.config.enabled
       THEN UNCHANGED <<keepAliveService, initialPing>>
       ELSE IF keepAliveService.intervalId # Undefined
       THEN UNCHANGED <<keepAliveService, initialPing>>
       ELSE /\ initialPing + pings.started < MaxPings
            /\ keepAliveService' =
                 [keepAliveService EXCEPT !.intervalId = <<"setInterval">>]
            /\ initialPing' = initialPing + 1
    /\ UNCHANGED pings
    /\ UNCHANGED <<mockVars, gwVars, gusVars>>

\* stop()
stop ==
    /\ keepAliveService' =
         IF keepAliveService.intervalId # Undefined
         THEN [keepAliveService EXCEPT !.intervalId = Undefined]
         ELSE keepAliveService
    /\ UNCHANGED <<initialPing, pings>>
    /\ UNCHANGED <<mockVars, gwVars, gusVars>>

\* ping(), up to its await: the ping is counted and the request is sent
ping ==
    /\ pings.started < MaxPings
    /\ keepAliveService' =
         [keepAliveService EXCEPT !.totalPings = @ + 1]
    /\ pings' = [pings EXCEPT !.started = @ + 1]

\* the callback of setInterval runs
IntervalFires ==
    /\ keepAliveService.intervalId # Undefined
    /\ ping
    /\ UNCHANGED initialPing
    /\ UNCHANGED <<mockVars, gwVars, gusVars>>

\* the callback of the setTimeout of start() runs
TimeoutFires ==
    /\ initialPing > 0
    /\ initialPing' = initialPing - 1
    /\ ping
    /\ UNCHANGED <<mockVars, gwVars, gusVars>>

\* ping(), from its await on: GET <url>/health ends with status 200, with
\* another 2xx status, or axios throws (no answer, timeout, or a status
\* outside 2xx)
PingAnswered(outcome) ==
    /\ pings.finished < pings.started
    /\ keepAliveService' =
         IF outcome = "200"
         THEN [keepAliveService EXCEPT !.lastPingSuccess = TRUE,
                                       !.successfulPings = @ + 1]
         ELSE IF outcome = "204"
         THEN [keepAliveService EXCEPT !.lastPingSuccess = FALSE]
         ELSE [keepAliveService EXCEPT !.totalPings = @ + 1,
                                       !.lastPingSuccess = FALSE]
    /\ pings' = [pings EXCEPT !.finished = @ + 1]
    /\ UNCHANGED initialPing
    /\ UNCHANGED <<mockVars, gwVars, gusVars>>

\* getStatus() (successRate, lastPingTime and nextPingIn are left out)
getStatus ==
    [enabled |-> keepAliveService.config.enabled,
     running |-> keepAliveService.intervalId # Undefined,
     config |-> [url |-> keepAliveService.config.url,
                 intervalMinutes |-> keepAliveService.config.intervalMinutes],
     stats |-> [totalPings |-> keepAliveService.totalPings,
                successfulPings |-> keepAliveService.successfulPings,
                lastPingSuccess |-> keepAliveService.lastPingSuccess]]

-----------------------------------------------------------------------------
(* The two specifications *)

\* the server starts in any environment; server.ts decides the mounting
GatewayInit ==
    /\ env \in EnvStates
    /\ mockMounted = MountsMock(env)
    /\ pc = "idle"
    /\ req = NoRequest
    /\ calls = <<>>
    /\ gwResp = GwReply("none", 0, NoBody)
    /\ steps = <<>>
    \* the mock part at rest
    /\ mockSessions = EmptyMap
    /\ mockInvoices = EmptyMap
    /\ now = 0
    /\ rng = 0
    /\ timers = <<>>
    /\ resp = Reply("none", NoHeader, 0, NoBody)
    /\ issued = <<>>
    /\ terminated = {}
    /\ acceptedRead = {}
    /\ readAgain = {}
    /\ sent = 0
    \* the GUS client and the keep-alive service as constructed
    /\ gusRegonService = [config |-> getConfig(Undefined), sessionId |-> Undefined]
    /\ gusReq = [c \in Callers |-> NoCall]
    /\ gusLogins = 0
    /\ keepAliveService = KeepAliveService(FALSE)
    /\ initialPing = 0
    /\ pings = [started |-> 0, finished |-> 0]

GatewayNext ==
    \/ GetConfig
    \/ MockRouteRequest
    \/ SetEnv
    \/ \E ctx \in ContextIdentifiers, e \in ReqEnvironments :
          PostAuthorizationChallenge(ctx, e)
    \/ \E a \in Answers({"challenge"}) : AuthorizationChallengeAnswered(a)
    \/ \E n \in Nips, t \in AuthTokens, e \in ReqEnvironments :
          PostInitSessionToken(n, t, e)
    \/ \E a \in Answers({"challenge"}) : InitSessionChallengeAnswered(a)
    \/ \E a \in Answers(PublicKeys) : InitSessionPublicKeyAnswered(a)
    \/ \E a \in Answers({"session"}) : InitSessionInitTokenAnswered(a)

SpecGateway == GatewayInit /\ [][GatewayNext]_vars

\* The routes of the real gateway on their own: the server runs in real mode
\* with KSEF_API_URL set or not, and process.env is left alone.
RoutesInit ==
    /\ env \in {e \in EnvStates :
                  /\ e.USE_REAL_KSEF = <<"true">>
                  /\ e.USE_MOCK_KSEF = Undefined
                  /\ e.NODE_ENV = Undefined
                  /\ e.KSEF_ENVIRONMENT = Undefined
                  /\ e.BACKEND_URL = Undefined}
    /\ mockMounted = MountsMock(env)
    /\ pc = "idle"
    /\ req = NoRequest
    /\ calls = <<>>
    /\ gwResp = GwReply("none", 0, NoBody)
    /\ steps = <<>>
    \* the mock part at rest
    /\ mockSessions = EmptyMap
    /\ mockInvoices = EmptyMap
    /\ now = 0
    /\ rng = 0
    /\ timers = <<>>
    /\ resp = Reply("none", NoHeader, 0, NoBody)
    /\ issued = <<>>
    /\ terminated = {}
    /\ acceptedRead = {}
    /\ readAgain = {}
    /\ sent = 0
    \* the GUS client and the keep-alive service as constructed
    /\ gusRegonService = [config |-> getConfig(Undefined), sessionId |-> Undefined]
    /\ gusReq = [c \in Callers |-> NoCall]
    /\ gusLogins = 0
    /\ keepAliveService = KeepAliveService(FALSE)
    /\ initialPing = 0
    /\ pings = [started |-> 0, finished |-> 0]

RoutesNext ==
    \/ \E ctx \in ContextIdentifiers, e \in ReqEnvironments :
          PostAuthorizationChallenge(ctx, e)
    \/ \E a \in Answers({"challenge"}) : AuthorizationChallengeAnswered(a)
    \/ \E n \in Nips, t \in AuthTokens, e \in ReqEnvironments :
          PostInitSessionToken(n, t, e)
    \/ \E a \in Answers({"challenge"}) : InitSessionChallengeAnswered(a)
    \/ \E a \in Answers(PublicKeys) : InitSessionPublicKeyAnswered(a)
    \/ \E a \in Answers({"session"}) : InitSessionInitTokenAnswered(a)
    \/ \E b \in Base64Inputs, e \in ReqEnvironments :
          PostRequestSessionToken(b, e)
    \/ \E a \in Answers({"session"}) : RequestSessionTokenAnswered(a)
    \/ \E b \in Base64Inputs, c \in BOOLEAN, f \in Files, e \in ReqEnvironments :
          PostInitSessionSigned(b, c, f, e)
    \/ \E a \in Answers({"session"}) : InitSessionSignedAnswered(a)
    \/ \E t \in SessionTokens, b \in Base64Inputs, c \in ContentTypes,
          e \in ReqEnvironments : PostSendInvoice(t, b, c, e)
    \/ \E a \in Answers({"sent"}) : SendInvoiceAnswered(a)
    \/ \E t \in SessionTokens, e \in ReqEnvironments : GetInvoiceStatus(t, e)
    \/ \E a \in Answers({"status"}) : InvoiceStatusAnswered(a)
    \/ \E t \in SessionTokens, e \in ReqEnvironments : GetInvoiceById(t, e)
    \/ \E a \in Answers({"invoice"}),
          t \in {Undefined, <<"application/octet-stream">>} :
          InvoiceAnswered(a, t)
    \/ \E t \in SessionTokens, f \in Dates, u \in Dates, e \in ReqEnvironments :
          PostQueryInvoices(t, f, u, e)
    \/ \E a \in Answers({"page"}) : QueryInvoicesAnswered(a)
    \/ \E t \in SessionTokens, e \in EnvironmentNames : PostTerminateSession(t, e)
    \/ \E a \in Answers({"terminated"}) : TerminateSessionAnswered(a)

SpecRoutes == RoutesInit /\ [][RoutesNext]_vars

\* the mock simulator as a state machine, the gateway part at rest
Init ==
    /\ mockSessions = EmptyMap
    /\ mockInvoices = EmptyMap
    /\ now = 0
    /\ rng = 0
    /\ timers = <<>>
    /\ resp = Reply("none", NoHeader, 0, NoBody)
    /\ issued = <<>>
    /\ terminated = {}
    /\ acceptedRead = {}
    /\ readAgain = {}
    /\ sent = 0
    \* the gateway part at rest: nothing set in process.env, no request
    /\ env = [USE_MOCK_KSEF |-> Undefined, USE_REAL_KSEF |-> Undefined,
              NODE_ENV |-> Undefined, KSEF_ENVIRONMENT |-> Undefined,
              BACKEND_URL |-> Undefined, KSEF_API_URL |-> Undefined]
    /\ mockMounted = TRUE
    /\ pc = "idle"
    /\ req = [route |-> "none"]
    /\ calls = <<>>
    /\ gwResp = [route |-> "none", status |-> 0, body |-> NoBody]
    /\ steps = <<>>
    \* the GUS client and the keep-alive service as constructed
    /\ gusRegonService = [config |-> getConfig(Undefined), sessionId |-> Undefined]
    /\ gusReq = [c \in Callers |-> NoCall]
    /\ gusLogins = 0
    /\ keepAliveService = KeepAliveService(FALSE)
    /\ initialPing = 0
    /\ pings = [started |-> 0, finished |-> 0]

MockNext ==
    \/ \E ctx \in ContextIdentifiers : AuthorisationChallenge(ctx)
    \/ InitSigned
    \/ InitSignedTimeout
    \/ InitToken
    \/ \E h \in Headers : SessionStatus(h)
    \/ \E h \in Headers : Terminate(h)
    \/ \E h \in Headers : SendInvoice(h)
    \/ \E h \in Headers, p \in RefParams : InvoiceStatus(h, p)
    \/ \E h \in Headers, k \in KsefParams : GetInvoice(h, k)
    \/ \E h \in Headers, n \in PageSizes : QueryInvoiceSync(h, n)
    \/ \E h \in Headers : GenerateCredentialToken(h)
    \/ Health
    \/ Tick

Next == MockNext

Spec == Init /\ [][Next]_vars

\* The simulator under the scheduling of the event loop: the clock keeps
\* running, and a setTimeout callback whose delay has elapsed is run.
SpecLive ==
    /\ Init
    /\ [][Next]_vars
    /\ WF_vars(Tick)
    /\ WF_vars(InitSignedTimeout)

\* The GUS client on its own: the instance as constructed, no call in
\* progress.
GusInit ==
    /\ gusRegonService = [config |-> getConfig(Undefined), sessionId |-> Undefined]
    /\ gusReq = [c \in Callers |-> NoCall]
    /\ gusLogins = 0
    /\ keepAliveService = KeepAliveService(FALSE)
    /\ initialPing = 0
    /\ pings = [started |-> 0, finished |-> 0]
    \* the mock simulator and the gateway at rest
    /\ mockSessions = EmptyMap
    /\ mockInvoices = EmptyMap
    /\ now = 0
    /\ rng = 0
    /\ timers = <<>>
    /\ resp = Reply("none", NoHeader, 0, NoBody)
    /\ issued = <<>>
    /\ terminated = {}
    /\ acceptedRead = {}
    /\ readAgain = {}
    /\ sent = 0
    /\ env = [USE_MOCK_KSEF |-> Undefined, USE_REAL_KSEF |-> Undefined,
              NODE_ENV |-> Undefined, KSEF_ENVIRONMENT |-> Undefined,
              BACKEND_URL |-> Undefined, KSEF_API_URL |-> Undefined]
    /\ mockMounted = TRUE
    /\ pc = "idle"
    /\ req = [route |-> "none"]
    /\ calls = <<>>
    /\ gwResp = [route |-> "none", status |-> 0, body |-> NoBody]
    /\ steps = <<>>

GusNext ==
    \/ \E c \in Callers, nip \in GusNumbers.nip, e \in UseTestEnvironments :
          searchByNIP(c, nip, e)
    \/ \E c \in Callers, regon \in GusNumbers.regon, e \in UseTestEnvironments :
          searchByREGON(c, regon, e)
    \/ \E c \in Callers, regon \in GusNumbers.regon, e \in UseTestEnvironments :
          getCompanyDetails(c, regon, e)
    \/ \E c \in Callers, outcome \in {"session", "short", "empty", "error"} :
          LoginAnswered(c, outcome)
    \/ \E c \in Callers : logout(c)
    \/ \E c \in Callers, answered \in BOOLEAN : LogoutAnswered(c, answered)
    \/ \E c \in Callers, outcome \in {"company", "unparsable", "error"} : SearchAnswered(c, outcome)
    \/ \E c \in Callers : GusReturn(c)

SpecGus == GusInit /\ [][GusNext]_vars

\* The keep-alive service on its own: constructed enabled or not, not
\* started.
KeepAliveInit ==
    /\ keepAliveService \in {KeepAliveService(enabled) : enabled \in BOOLEAN}
    /\ initialPing = 0
    /\ pings = [started |-> 0, finished |-> 0]
    /\ gusRegonService = [config |-> getConfig(Undefined), sessionId |-> Undefined]
    /\ gusReq = [c \in Callers |-> NoCall]
    /\ gusLogins = 0
    \* the mock simulator and the gateway at rest
    /\ mockSessions = EmptyMap
    /\ mockInvoices = EmptyMap
    /\ now = 0
    /\ rng = 0
    /\ timers = <<>>
    /\ resp = Reply("none", NoHeader, 0, NoBody)
    /\ issued = <<>>
    /\ terminated = {}
    /\ acceptedRead = {}
    /\ readAgain = {}
    /\ sent = 0
    /\ env = [USE_MOCK_KSEF |-> Undefined, USE_REAL_KSEF |-> Undefined,
              NODE_ENV |-> Undefined, KSEF_ENVIRONMENT |-> Undefined,
              BACKEND_URL |-> Undefined, KSEF_API_URL |-> Undefined]
    /\ mockMounted = TRUE
    /\ pc = "idle"
    /\ req = [route |-> "none"]
    /\ calls = <<>>
    /\ gwResp = [route |-> "none", status |-> 0, body |-> NoBody]
    /\ steps = <<>>

KeepAliveNext ==
    \/ start
    \/ stop
    \/ IntervalFires
    \/ TimeoutFires
    \/ \E outcome \in {"200", "204", "throws"} : PingAnswered(outcome)

SpecKeepAlive == KeepAliveInit /\ [][KeepAliveNext]_vars

-----------------------------------------------------------------------------
(* Properties of the mock simulator *)

\* two minutes, in milliseconds
TwoMinutes == 2 * 60 * 1000

\* a status read that found the session and the invoice
IsStatusRead(r) == r.op = "InvoiceStatus" /\ r.status = 200

ReportsAccepted(r) == r.body.processingCode = 200 /\ r.body.invoiceStatus # <<>>

ReportsProcessing(r) == r.body.processingCode = 100 /\ r.body.invoiceStatus = <<>>

\* an error envelope whose first detail carries the code
ExceptionCode(r) == r.body.exception.exceptionDetailList[1].exceptionCode

\* a header that is missing or names no stored session
NoSession(h) == h = NoHeader \/ h[1] \notin DOMAIN mockSessions

\* the step is a status read answered 200 for the invoice it names
StatusReadStep ==
    /\ IsStatusRead(resp')
    /\ InvoiceStatus(resp'.hdr, resp'.body.elementReferenceNumber)

\* the age, at the step, of the invoice the step's response is about
AgeAtRead == now - mockInvoices[resp'.body.elementReferenceNumber].createdAt

\* C1 as stated in the claim: a status read with a known token of an invoice
\* stored at T, made at t, reports accepted exactly when t - T is at least
\* two minutes, and processing otherwise.
C1_AcceptedAtTwoMinutes ==
    [][StatusReadStep =>
          IF AgeAtRead >= TwoMinutes
          THEN ReportsAccepted(resp') ELSE ReportsProcessing(resp')]_vars

\* C1 (amended): a status read with a known token of an invoice stored at T,
\* made at t, reports accepted (processingCode 200, with invoiceStatus
\* details) exactly when t - T is more than two minutes, and processing
\* (processingCode 100, no invoiceStatus details) otherwise, whatever was
\* read or done before.
C1_AcceptedAfterTwoMinutes ==
    [][StatusReadStep =>
          IF AgeAtRead > TwoMinutes
          THEN ReportsAccepted(resp') ELSE ReportsProcessing(resp')]_vars

\* C1 witness: a read of an invoice one millisecond older than two minutes
\* has reported accepted.
C1_Witness ==
    /\ IsStatusRead(resp)
    /\ ReportsAccepted(resp)
    /\ now - mockInvoices[resp.body.elementReferenceNumber].createdAt
          = TwoMinutes + 1

\* C2: once a status read has reported accepted for an invoice, no later
\* status read of that invoice reports processing.
C2_NoProcessingAfterAccepted ==
    (IsStatusRead(resp) /\ resp.body.processingCode = 100)
        => resp.body.elementReferenceNumber \notin acceptedRead

\* C2 witness: an invoice is read again after a read reported it accepted.
C2_Witness ==
    /\ IsStatusRead(resp)
    /\ resp.body.elementReferenceNumber \in readAgain

\* C3: every operation that requires a session, called with a missing or
\* unknown token, answers 401 with exceptionCode 21003 and leaves the session
\* store and the invoice store unchanged.
SessionOps ==
    {"SessionStatus", "SendInvoice", "InvoiceStatus", "GetInvoice",
     "QueryInvoiceSync", "GenerateCredentialToken"}

\* the step is one of the six handlers, called with header h
SessionOpStep(h) ==
    \/ SessionStatus(h)
    \/ SendInvoice(h)
    \/ \E p \in RefParams : InvoiceStatus(h, p)
    \/ \E k \in KsefParams : GetInvoice(h, k)
    \/ \E n \in PageSizes : QueryInvoiceSync(h, n)
    \/ GenerateCredentialToken(h)

C3_UnknownTokenRejected ==
    [][(resp'.op \in SessionOps /\ NoSession(resp'.hdr)
            /\ SessionOpStep(resp'.hdr))
          => /\ resp'.status = 401
             /\ ExceptionCode(resp') = 21003
             /\ UNCHANGED <<mockSessions, mockInvoices>>]_vars

\* C3 witness: an invoice send with the token of a terminated session was
\* rejected while invoices are stored.
C3_Witness ==
    /\ resp.op = "SendInvoice"
    /\ resp.status = 401
    /\ resp.hdr # NoHeader
    /\ resp.hdr[1] \in terminated
    /\ DOMAIN mockInvoices # {}

\* C4: Terminate answers success (processingCode 200) for any token, known,
\* unknown or missing; it removes at most the session of that token and
\* nothing else, and called with a token that is not (or no longer) in the
\* store it changes neither store.
C4_TerminateIdempotent ==
    [][(resp'.op = "Terminate" /\ Terminate(resp'.hdr)) =>
          LET h == resp'.hdr
          IN  /\ resp'.status = 200
              /\ resp'.body.processingCode = 200
              /\ mockInvoices' = mockInvoices
              /\ (Falsy(h) \/ h[1] \notin DOMAIN mockSessions')
              /\ \A t \in DOMAIN mockSessions :
                    (h = NoHeader \/ t # h[1])
                        => t \in DOMAIN mockSessions'
                            /\ mockSessions'[t] = mockSessions[t]
              /\ DOMAIN mockSessions' \subseteq DOMAIN mockSessions
              /\ NoSession(h) => mockSessions' = mockSessions]_vars

\* C4 witness: Terminate was called with the token of a session an earlier
\* Terminate had removed, and answered success.
C4_Witness ==
    /\ resp.op = "Terminate"
    /\ resp.status = 200
    /\ resp.hdr # NoHeader
    /\ resp.hdr[1] \in terminated
    /\ ~resp.body.removed

\* the elements of a sequence are pairwise different
NoDuplicates(seq) ==
    \A i, j \in 1..Len(seq) : i # j => seq[i] # seq[j]

\* C5: every init issues a token and a reference number no earlier init
\* issued, no init overwrites a session record (every init adds one record,
\* and only Terminate removes one), and a token whose session was terminated
\* is no longer in the store, so that a session operation with it is rejected
\* with 21003.
C5_TokensNeverReused ==
    /\ NoDuplicates([i \in 1..Len(issued) |-> issued[i][1]])
    /\ NoDuplicates([i \in 1..Len(issued) |-> issued[i][2]])
    /\ Cardinality(DOMAIN mockSessions) + Cardinality(terminated) = Len(issued)
    /\ \A i \in 1..Len(issued) :
          issued[i][1] \in DOMAIN mockSessions \cup terminated
    /\ terminated \cap DOMAIN mockSessions = {}
    /\ (resp.op \in SessionOps
          /\ resp.hdr # NoHeader /\ resp.hdr[1] \in terminated)
            => resp.status = 401 /\ ExceptionCode(resp) = 21003

\* C5 witness: two inits have been answered, the first session was
\* terminated, and a session operation with its token was rejected.
C5_Witness ==
    /\ Len(issued) >= 2
    /\ issued[1][1] \in terminated
    /\ resp.op = "SessionStatus"
    /\ resp.hdr = <<issued[1][1]>>
    /\ resp.status = 401

-----------------------------------------------------------------------------
(* Properties of the mode switch and of the real gateway (SpecGateway) *)

\* the step makes an outbound call
MakesCall == calls' # <<>> /\ Len(calls') > Len(calls)

\* the step answers a valid POST /authorization-challenge
AnswersAuthorizationChallenge == pc = "ac:challenge" /\ pc' = "idle"

\* C6: every gateway request is dispatched by the mode switch: while the
\* resolved mode is mock no step makes an outbound call to an official KSeF
\* host, and a valid POST /authorization-challenge is answered 201 with a
\* challenge.
C6_MockModeCallsNoUpstream ==
    [][isMockMode(env) =>
          /\ MakesCall => calls'[Len(calls')].base \notin OfficialHosts
          /\ AnswersAuthorizationChallenge =>
                /\ gwResp'.status = 201
                /\ "challenge" \in DOMAIN gwResp'.body]_vars

\* real mode was explicitly requested in the environment e
ExplicitReal(e) ==
    e.USE_MOCK_KSEF = <<"false">> \/ e.USE_REAL_KSEF = <<"true">>

\* the step is GET /config answering
ConfigStep == gwResp'.route = "config" /\ GetConfig

\* C7: the mode GET /config reports from getKSeFConfig is mock whenever the
\* environment holds no explicit override to real mode, in particular when
\* no toggle variable is set.
C7_MockByDefault ==
    [][ConfigStep =>
          (~ExplicitReal(env) =>
              gwResp'.body.mockEnabled /\ gwResp'.body.mode = "mock")]_vars

\* the step is a request to a path of the mock router answering
MockRouteStep == gwResp'.route = "ksef-mock" /\ MockRouteRequest

\* C8: every request observes what the current values of process.env
\* select: GET /config reports the mode, base URL and environment of the
\* current values, and a request to the mock router is served exactly when
\* the current value of the toggle enables the mock.
C8_ModeNeverCached ==
    [][/\ ConfigStep =>
            /\ gwResp'.body.mockEnabled = getKSeFConfig(env).useMock
            /\ gwResp'.body.baseUrl = getKSeFUrl(env)
            /\ gwResp'.body.environment = getKSeFConfig(env).environment
       /\ MockRouteStep =>
            (gwResp'.status = 200 <=> MountsMock(env))]_vars

\* the steps of InitSessionWithToken, in order
StepOrder == <<"challenge", "publicKey", "encrypt", "initToken">>

\* the outbound calls of InitSessionWithToken, in order
CallOrder == <<ChallengePath, PublicKeyPath, InitTokenPath>>

SessionSummary == {"sessionToken", "timestamp", "referenceNumber"}

\* C9: POST /init-session-token runs its steps in the order challenge,
\* public key, encryption, InitToken, and makes its calls in that order; a
\* step that fails is the last one run; then the request is answered at
\* once with an error response (a non-2xx status and an `error` field) that
\* has no sessionToken, timestamp or referenceNumber; only a request whose
\* four steps all succeeded is answered 200 with the session summary.
C9_InitSessionStepsInOrder ==
    [][/\ Len(steps') <= Len(StepOrder)
       /\ \A i \in 1..Len(steps') : steps'[i].name = StepOrder[i]
       /\ \A i \in 1..(Len(steps') - 1) : steps'[i].ok
       /\ Len(calls') <= Len(CallOrder)
       /\ \A i \in 1..Len(calls') : calls'[i].path = CallOrder[i]
       /\ (steps' # <<>> /\ ~steps'[Len(steps')].ok) => pc' = "idle"
       /\ (req.route = "init-session-token" /\ pc' = "idle") =>
             /\ gwResp'.route = "init-session-token"
             /\ IF Len(steps') = Len(StepOrder) /\ steps'[Len(steps')].ok
                THEN /\ gwResp'.status = 200
                     /\ SessionSummary \subseteq DOMAIN gwResp'.body
                ELSE /\ gwResp'.status >= 400
                     /\ "error" \in DOMAIN gwResp'.body
                     /\ SessionSummary \cap DOMAIN gwResp'.body = {}]_vars

\* C9 witness: an init-session-token request whose public-key step failed
\* after a successful challenge step has been answered 500.
C9_Witness ==
    /\ pc = "idle"
    /\ Len(steps) = 2
    /\ steps[1].ok /\ ~steps[2].ok
    /\ steps[2].name = "publicKey"
    /\ gwResp.route = "init-session-token"
    /\ gwResp.status = 500

\* the step ends a challenge request the upstream answered with a non-2xx
\* status
ChallengeRefused ==
    /\ pc \in {"ac:challenge", "ist:challenge"}
    /\ pc' = "idle"
    /\ steps'[Len(steps')].answer.kind = "http"

\* C10: when the upstream answers the challenge request with a non-2xx
\* status, the response of POST /authorization-challenge, and of POST
\* /init-session-token failing at its challenge step, has the upstream's
\* status and the upstream's body under details.
C10_UpstreamStatusCarried ==
    [][ChallengeRefused =>
          /\ gwResp'.status = steps'[Len(steps')].answer.status
          /\ gwResp'.body.details = steps'[Len(steps')].answer.data]_vars

-----------------------------------------------------------------------------
(* Further properties of the mock simulator (Spec) *)

\* C14: the mock AuthorisationChallenge answers 201 with a challenge and a
\* timestamp for every contextIdentifier that has a type and an identifier,
\* and 400 with exceptionCode 21001 when the contextIdentifier, its type or
\* its identifier is missing; either way it changes neither store, draws
\* nothing that is kept and arms no timer.
C14_ChallengeValidated ==
    [][resp'.op = "AuthorisationChallenge" =>
          \A ctx \in ContextIdentifiers :
             AuthorisationChallenge(ctx) =>
                /\ IF ctx # <<>> /\ ctx[1].type # "" /\ ctx[1].identifier # ""
                   THEN /\ resp'.status = 201
                        /\ {"challenge", "timestamp"} \subseteq DOMAIN resp'.body
                   ELSE /\ resp'.status = 400
                        /\ ExceptionCode(resp') = 21001
                /\ UNCHANGED <<mockSessions, mockInvoices, rng, timers>>]_vars

\* C14 witness: a challenge has been issued while a session and an invoice
\* are stored.
C14_Witness ==
    /\ resp.op = "AuthorisationChallenge"
    /\ resp.status = 201
    /\ DOMAIN mockSessions # {}
    /\ DOMAIN mockInvoices # {}

\* the step is SendInvoice with a token of the session store
SendInvoiceStep ==
    /\ resp'.op = "SendInvoice"
    /\ ~NoSession(resp'.hdr)
    /\ SendInvoice(resp'.hdr)

\* C15: a mock SendInvoice with a known token adds exactly one invoice
\* under a reference that was not in the store, with status processing, the
\* sender's token and the current time; it answers 202 with processingCode
\* 100 and that reference, and leaves the sessions and every invoice already
\* stored as they were.
C15_SendInvoiceAddsOne ==
    [][SendInvoiceStep =>
          LET ref == resp'.body.elementReferenceNumber
          IN  /\ resp'.status = 202
              /\ resp'.body.processingCode = 100
              /\ ref \notin DOMAIN mockInvoices
              /\ DOMAIN mockInvoices' = DOMAIN mockInvoices \cup {ref}
              /\ mockInvoices'[ref].status = "processing"
              /\ mockInvoices'[ref].sessionToken = resp'.hdr[1]
              /\ mockInvoices'[ref].createdAt = now
              /\ \A r \in DOMAIN mockInvoices : mockInvoices'[r] = mockInvoices[r]
              /\ mockSessions' = mockSessions]_vars

\* C15 witness: an invoice has been accepted for sending while another was
\* already stored.
C15_Witness ==
    /\ resp.op = "SendInvoice"
    /\ resp.status = 202
    /\ Cardinality(DOMAIN mockInvoices) >= 2

\* C16: the mock InvoiceStatus checks the token before the reference: with
\* a token that names no session it answers 401 / 21003 whether or not the
\* reference is stored, with a known token and a reference that is not
\* stored it answers 404 / 21002, and neither answer changes the invoices.
C16_TokenBeforeReference ==
    [][resp'.op = "InvoiceStatus" =>
          \A p \in RefParams :
             InvoiceStatus(resp'.hdr, p) =>
                /\ NoSession(resp'.hdr) =>
                      /\ resp'.status = 401
                      /\ ExceptionCode(resp') = 21003
                      /\ mockInvoices' = mockInvoices
                /\ (~NoSession(resp'.hdr) /\ p \notin DOMAIN mockInvoices) =>
                      /\ resp'.status = 404
                      /\ ExceptionCode(resp') = 21002
                      /\ mockInvoices' = mockInvoices]_vars

\* C16 witness: a status read with a known token of a reference that is not
\* stored has been answered 404 while an invoice is stored.
C16_Witness ==
    /\ resp.op = "InvoiceStatus"
    /\ resp.status = 404
    /\ ~NoSession(resp.hdr)
    /\ DOMAIN mockInvoices # {}

\* the smaller of two numbers
Min(a, b) == IF a < b THEN a ELSE b

\* C20: the mock QueryInvoiceSync with a known token returns exactly
\* min(pageSize, 5) entries, reports that number as numberOfElements and
\* hasMoreElements = false, and changes neither store.
C20_QueryCappedAtFive ==
    [][(resp'.op = "QueryInvoiceSync" /\ ~NoSession(resp'.hdr)) =>
          \A n \in PageSizes :
             QueryInvoiceSync(resp'.hdr, n) =>
                /\ resp'.status = 200
                /\ Len(resp'.body.invoiceHeaderList) = Min(n, 5)
                /\ Len(resp'.body.invoiceHeaderList) <= 5
                /\ resp'.body.numberOfElements = Len(resp'.body.invoiceHeaderList)
                /\ resp'.body.hasMoreElements = FALSE
                /\ UNCHANGED <<mockSessions, mockInvoices>>]_vars

\* C20 witness: a query with pageSize 100 has been answered with 5 entries.
C20_Witness ==
    /\ resp.op = "QueryInvoiceSync"
    /\ resp.status = 200
    /\ resp.body.pageSize = 100
    /\ Len(resp.body.invoiceHeaderList) = 5

\* the answer r is a 201 whose session token names a stored active session
SessionStored(r, sessions) ==
    /\ r.status = 201
    /\ r.body.sessionToken.token \in DOMAIN sessions
    /\ sessions[r.body.sessionToken.token].status = "active"

\* C17: a mock InitSigned request only arms its timer (neither the store nor
\* any answer changes at the request); the session is stored exactly when
\* the timer runs, which is not before the delay has elapsed, and that step
\* answers 201 with the token of the new active session; every armed timer
\* eventually runs; InitToken stores its session within the request.
C17_InitSignedCompletes ==
    /\ [][Len(timers') > Len(timers) =>
             /\ mockSessions' = mockSessions
             /\ resp' = resp]_vars
    /\ [][Len(timers') < Len(timers) =>
             /\ now >= Head(timers)
             /\ timers' = Tail(timers)
             /\ resp'.op = "InitSigned"
             /\ SessionStored(resp', mockSessions')
             /\ resp'.body.sessionToken.token \notin DOMAIN mockSessions]_vars
    /\ [][(resp'.op = "InitToken" /\ InitToken) =>
             /\ SessionStored(resp', mockSessions')
             /\ resp'.body.sessionToken.token \notin DOMAIN mockSessions]_vars
    /\ (timers # <<>>) ~> (timers = <<>>)

\* C17 witness: a signed init has completed 500 ms after a request made at
\* time 0, another one is still pending, and the answer names a stored
\* active session.
C17_Witness ==
    /\ resp.op = "InitSigned"
    /\ SessionStored(resp, mockSessions)
    /\ mockSessions[resp.body.sessionToken.token].createdAt = InitSignedDelay
    /\ timers # <<>>
-----------------------------------------------------------------------------
(* Properties of the routes of the real gateway (SpecRoutes) *)

\* the steps at which SendInvoice, GetInvoiceStatus, GetInvoice,
\* QueryInvoices and TerminateSession wait for the upstream
ForwardSteps == {"si:send", "is:status", "gi:get", "qi:query", "ts:terminate"}

\* C11: for SendInvoice, GetInvoiceStatus, GetInvoice, QueryInvoices and
\* TerminateSession, a non-2xx answer of the upstream is returned with the
\* same status and with the upstream body unchanged under details, and a
\* call without any answer is returned as 500.
C11_UpstreamFailureCarried ==
    [][(pc \in ForwardSteps /\ pc' = "idle") =>
          LET answer == steps'[Len(steps')].answer
          IN  /\ answer.kind = "http" =>
                    /\ gwResp'.status = answer.status
                    /\ gwResp'.body.details = answer.data
              /\ answer.kind = "none" => gwResp'.status = 500]_vars

\* the request was answered 400 and no outbound call was made for it
Refused ==
    /\ pc' = "idle"
    /\ gwResp'.status = 400
    /\ calls = <<>>
    /\ calls' = <<>>

C13_NoRetry ==
    [][/\ (calls' # calls /\ calls' # <<>>) =>
             /\ Len(calls') = Len(calls) + 1
             /\ SubSeq(calls', 1, Len(calls)) = calls
             /\ \A i \in 1..Len(calls) : calls[i] # calls'[Len(calls')]
       /\ (Len(steps') > Len(steps)
             /\ \E i \in (Len(steps) + 1)..Len(steps') : ~steps'[i].ok) =>
             /\ pc' = "idle"
             /\ calls' = <<>>
             /\ gwResp'.status >= 400
             /\ "error" \in DOMAIN gwResp'.body]_vars

\* C13 witness: /terminate-session has answered 503 after its one call was
\* answered 503 by the upstream.
C13_Witness ==
    /\ pc = "idle"
    /\ calls = <<>>
    /\ gwResp.route = "terminate-session"
    /\ gwResp.status = 503
    /\ Len(steps) = 1
    /\ ~steps[1].ok

\* C18: /send-invoice sends, for contentType zip, the decoded bytes as a
\* Buffer (on the wire: those bytes) under application/zip; for gzip, the
\* text of the data the gzip member holds under application/xml; for xml
\* and for an absent contentType, the decoded bytes as text under
\* application/xml.
C18_SendInvoiceContent ==
    [][(pc = "idle" /\ pc' = "si:send") =>
          LET decoded == BufferFrom(req'.invoiceXmlBase64)
              call == calls'[1]
          IN  /\ Len(calls') = 1
              /\ call.path = SendPath
              /\ req'.contentType = <<"zip">> =>
                    /\ call.data = Buffer(decoded)
                    /\ WireBytes(call.data) = decoded
                    /\ call.contentType = "application/zip"
              /\ req'.contentType = <<"gzip">> =>
                    /\ \E B \in ByteSeqs : decoded = Gzip(B)
                    /\ \A B \in ByteSeqs :
                          decoded = Gzip(B) =>
                             call.data = String(toStringUtf8(B))
                    /\ call.contentType = "application/xml"
              /\ req'.contentType \in {Undefined, <<"xml">>} =>
                    /\ call.data = String(toStringUtf8(decoded))
                    /\ call.contentType = "application/xml"]_vars

\* C18 witness: a zip payload whose byte 0xFF is no UTF-8 text is on its way
\* to the upstream as that byte.
C18_Witness ==
    /\ pc = "si:send"
    /\ req.contentType = <<"zip">>
    /\ calls[1].contentType = "application/zip"
    /\ WireBytes(calls[1].data) = <<255>>

\* C19: for every byte sequence B, base64(B) submitted as signedXmlBase64 to
\* /request-session-token, or to /init-session-signed without compression,
\* is sent to the upstream as a body whose bytes are exactly B.
C19_SignedBytesVerbatim ==
    [][(/\ pc = "idle"
        /\ pc' \in {"rst:initSigned", "iss:initSigned"}
        /\ req'.signedXmlBase64 # <<>>
        /\ pc' = "iss:initSigned" => ~req'.compressed) =>
          \A B \in ByteSeqs :
             base64(B) = req'.signedXmlBase64 =>
                WireBytes(calls'[1].data) = B]_vars
-----------------------------------------------------------------------------
(* Stores, counts and reads of the mock simulator (Spec) *)

\* the operations that only read the stores
ReadOnlyOps ==
    {"AuthorisationChallenge", "SessionStatus", "GetInvoice",
     "QueryInvoiceSync", "GenerateCredentialToken", "Health"}

\* C21: every error response (status 400 or above) of the mock simulator,
\* as of the gateway routes, is a JSON object with a top-level error field.
C21_ErrorFieldInEveryError ==
    resp.status >= 400 => "error" \in DOMAIN resp.body

\* C23: a mock SendInvoice is one step whatever runs before or after it:
\* with a token of the session store it answers 202 and the store has one
\* invoice more, complete; with a token that a Terminate has removed (or any
\* other unknown token) it answers 401 / 21003 and stores nothing; and every
\* stored invoice has all its fields in every reachable state.
C23_ConcurrentSendsIndependent ==
    /\ [][(resp'.op = "SendInvoice" /\ SendInvoice(resp'.hdr)) =>
             IF NoSession(resp'.hdr)
             THEN /\ resp'.status = 401
                  /\ ExceptionCode(resp') = 21003
                  /\ mockInvoices' = mockInvoices
             ELSE /\ resp'.status = 202
                  /\ Cardinality(DOMAIN mockInvoices')
                        = Cardinality(DOMAIN mockInvoices) + 1
                  /\ mockSessions' = mockSessions]_vars
    /\ [](\A r \in DOMAIN mockInvoices :
             /\ DOMAIN mockInvoices[r] =
                   {"ksefReferenceNumber", "sessionToken", "status",
                    "createdAt", "invoiceNumber"}
             /\ mockInvoices[r].status \in {"processing", "accepted"})

\* C23 witness: two invoices sent at the same instant with the same token
\* are both stored, and that session has been terminated since.
C23_Witness ==
    \E r1, r2 \in DOMAIN mockInvoices :
       /\ r1 # r2
       /\ mockInvoices[r1].sessionToken = mockInvoices[r2].sessionToken
       /\ mockInvoices[r1].createdAt = mockInvoices[r2].createdAt
       /\ mockInvoices[r1].sessionToken \in terminated
       /\ resp.op = "SendInvoice"
       /\ resp.status = 401

\* C24: the session store gains entries only through InitSigned and
\* InitToken and loses an entry only through a Terminate of its token; the
\* invoice store gains entries only through a SendInvoice answered 202 and
\* never loses one; the operations that only read leave both stores as they
\* were.
C24_StoresChangeOnlyThrough ==
    [][/\ (DOMAIN mockSessions' \ DOMAIN mockSessions # {}) =>
             resp'.op \in {"InitSigned", "InitToken"}
       /\ (DOMAIN mockSessions \ DOMAIN mockSessions' # {}) =>
             /\ resp'.op = "Terminate"
             /\ DOMAIN mockSessions \ DOMAIN mockSessions' = {resp'.hdr[1]}
       /\ (DOMAIN mockInvoices' \ DOMAIN mockInvoices # {}) =>
             /\ resp'.op = "SendInvoice"
             /\ resp'.status = 202
       /\ DOMAIN mockInvoices \subseteq DOMAIN mockInvoices'
       /\ (resp' # resp /\ resp'.op \in ReadOnlyOps) =>
             /\ mockSessions' = mockSessions
             /\ mockInvoices' = mockInvoices]_vars

\* C24 witness: a Terminate has removed a session while another session and
\* an invoice stay stored.
C24_Witness ==
    /\ resp.op = "Terminate"
    /\ resp.body.removed
    /\ DOMAIN mockSessions # {}
    /\ DOMAIN mockInvoices # {}

\* C25: Health reports as activeSessions the number of sessions created and
\* not terminated and as storedInvoices the number of SendInvoice requests
\* answered 202 so far; the latter never decreases.
C25_HealthCounts ==
    /\ [][(resp'.op = "Health" /\ Health) =>
             /\ resp'.body.activeSessions = Len(issued) - Cardinality(terminated)
             /\ resp'.body.storedInvoices = sent]_vars
    /\ [][HealthBody'.storedInvoices >= HealthBody.storedInvoices]_vars

\* C25 witness: Health has reported one stored invoice and no session after
\* the session that sent it was terminated.
C25_Witness ==
    /\ resp.op = "Health"
    /\ resp.body.storedInvoices = 1
    /\ resp.body.activeSessions = 0
    /\ sent = 1
    /\ terminated # {}

\* C26: GetInvoice with a known token answers 200 exactly when an invoice
\* with that KSeF number is stored, whatever its status, and 404 / 21002
\* exactly when none is.
C26_GetInvoiceByExistence ==
    [][(resp'.op = "GetInvoice" /\ ~NoSession(resp'.hdr)) =>
          \A k \in KsefParams :
             GetInvoice(resp'.hdr, k) =>
                LET stored == \E r \in DOMAIN mockInvoices :
                                 mockInvoices[r].ksefReferenceNumber = k
                IN  /\ stored <=> resp'.status = 200
                    /\ ~stored <=> resp'.status = 404
                    /\ stored => resp'.body.KSeFReferenceNumber = k
                    /\ ~stored => ExceptionCode(resp') = 21002]_vars

\* C26 witness: an invoice has been fetched while it is still in status
\* processing and too young for a status read to report it accepted.
C26_Witness ==
    /\ resp.op = "GetInvoice"
    /\ resp.status = 200
    /\ \E r \in DOMAIN mockInvoices :
          /\ mockInvoices[r].ksefReferenceNumber = resp.body.KSeFReferenceNumber
          /\ mockInvoices[r].status = "processing"
          /\ ~AgeOverThreshold(now, mockInvoices[r].createdAt)

\* C27: InvoiceStatus and GetInvoice answer 200 for a stored invoice with
\* any token of the session store, whichever session sent the invoice and
\* whether or not that session still exists.
C27_ReadsNotBoundToOwner ==
    [][/\ (resp'.op = "InvoiceStatus" /\ ~NoSession(resp'.hdr)) =>
             \A p \in DOMAIN mockInvoices :
                InvoiceStatus(resp'.hdr, p) =>
                   /\ resp'.status = 200
                   /\ resp'.body.elementReferenceNumber = p
       /\ (resp'.op = "GetInvoice" /\ ~NoSession(resp'.hdr)) =>
             \A p \in DOMAIN mockInvoices :
                GetInvoice(resp'.hdr, mockInvoices[p].ksefReferenceNumber) =>
                   /\ resp'.status = 200
                   /\ resp'.body.KSeFReferenceNumber =
                         mockInvoices[p].ksefReferenceNumber]_vars

\* C27 witness: a status read has answered 200 with the token of a session
\* other than the sender's, after the sender's session was terminated.
C27_Witness ==
    /\ resp.op = "InvoiceStatus"
    /\ resp.status = 200
    /\ LET owner == mockInvoices[resp.body.elementReferenceNumber].sessionToken
       IN  /\ owner # resp.hdr[1]
           /\ owner \in terminated

\* the environment a name stands for according to the claim: test, demo,
\* prod, with production for prod and case ignored; "" for any other name
NamedEnvironment(name) ==
    IF name \in {"test"} THEN "test"
    ELSE IF name \in {"demo", "Demo"} THEN "demo"
    ELSE IF name \in {"prod", "PROD", "production"} THEN "prod"
    ELSE ""

\* C22: the call of a request goes to the base URL of the environment the
\* request names when the name is, ignoring case, test, demo, prod or
\* production (production naming prod), and to KSEF_API_URL, or to the test
\* URL when that is not set, for every other name and without a name.
C22_EnvironmentResolved ==
    [][(pc = "idle" /\ pc' # "idle") =>
          LET environment == req'.environment
              named == IF environment = Undefined THEN ""
                       ELSE NamedEnvironment(environment[1])
          IN  calls'[1].base =
                 IF named # "" THEN KSEF_ENVIRONMENTS[named]
                 ELSE IF env.KSEF_API_URL # Undefined THEN env.KSEF_API_URL[1]
                 ELSE KSEF_ENVIRONMENTS.test]_vars

\* the mode GET /config reports when process.env is e
ReportedMode(e) == IF isMockMode(e) THEN "mock" ELSE "real"

\* C28: whatever process.env holds, also after it changed while the server
\* runs, a request to a route under /api/ksef-mock is served exactly when
\* GET /config reports the mode mock, and is answered 404 exactly when it
\* reports the mode real.
C28_ModeAgreesWithMockRoutes ==
    [][MockRouteStep =>
          /\ gwResp'.status = 200 <=> ReportedMode(env) = "mock"
          /\ gwResp'.status = 404 <=> ReportedMode(env) = "real"]_vars

\* the base URL of the environment a caller requests
RequestedUrl(useTestEnvironment) ==
    getConfig(useTestEnvironment).baseUrl

\* C29: whatever the interleaving of searchByNIP, searchByREGON and
\* getCompanyDetails calls on the shared instance, the search request of a
\* call that names its environment is sent to the base URL of that
\* environment, with a session id that a login against the same base URL
\* obtained, and the result reports the environment the caller named.
C29_SearchKeepsItsEnvironment ==
    \A c \in Callers :
       LET call == gusReq[c]
       IN  call.useTestEnvironment # Undefined =>
              /\ call.search # <<>> =>
                    /\ call.search[1].base =
                          RequestedUrl(call.useTestEnvironment)
                    /\ call.search[1].sid # Undefined
                    /\ call.search[1].sid[1].issuer =
                          RequestedUrl(call.useTestEnvironment)
              /\ (call.result # <<>> /\
                  call.result[1].environment # Undefined) =>
                    call.result[1].environment[1] =
                       IF call.useTestEnvironment[1]
                       THEN "test" ELSE "production"

\* C30: the totalPings that getStatus reports is the number of pings made
\* so far, each ping counted once whether it succeeds or fails, and
\* successfulPings never exceeds totalPings.
C30_PingsCountedOnce ==
    /\ getStatus.stats.totalPings = pings.started
    /\ getStatus.stats.successfulPings <= getStatus.stats.totalPings
=============================================================================
